---- MODULE Spec2Model ----
(***************************************************************************)
(* CloudMonitor: credential store (core/security.py), service lifecycle    *)
(* manager (core/plugin_mgr.py, core/config_mgr.py), result cache          *)
(* (core/cache_mgr.py), refresh orchestrator (ui/dashboard.py) and event   *)
(* bus (core/event_bus.py).                                                *)
(*                                                                         *)
(* Strings are sequences of Unicode code points, byte strings sequences of *)
(* integers 0..255.  Vault keys are the colon-separated segments of the    *)
(* key string, so "a:b" \o ":chunks" is <<"a","b">> \o <<"chunks">>.       *)
(***************************************************************************)
EXTENDS Integers, Sequences, FiniteSets, TLC

VARIABLES
    vault,          \* the platform vault: key segments -> stored string
    last,           \* the operation performed last, its arguments and its result
    services,       \* ConfigManager table services: service_id -> record
    cache,          \* ConfigManager table cache: the service_ids with a row
    monitor_cache,  \* CacheManager table monitor_cache: service_id -> result
    clock,          \* datetime.now(), counted in calls of add_service
    _instances,     \* PluginManager._instances: service_id -> instance
    monitors,       \* DashboardPage.monitors: service_id -> instance
    cards,          \* keys of DashboardPage.cards
    fetches,        \* the _refresh_monitor coroutines in flight
    _is_refreshing,             \* DashboardPage._is_refreshing
    _auto_refresh_interval,     \* DashboardPage._auto_refresh_interval
    _auto_refresh_task,         \* DashboardPage._auto_refresh_task (0: None)
    loops,          \* the _auto_refresh_loop tasks ever created, in order
    runs,           \* the _refresh_all_async calls that passed the guard
    _subscribers,   \* EventBus._subscribers: event type -> list of callbacks
    _loaded,        \* PluginManager._loaded
    registry,       \* the keys of PLUGIN_REGISTRY while plugins are discovered
    scans           \* the runs of _load_plugins that reached their end

refresh_vars == <<_is_refreshing, _auto_refresh_interval, _auto_refresh_task,
                  loops, runs>>

plugin_vars == <<_loaded, registry, scans>>

vars == <<vault, last, services, cache, monitor_cache, clock, _instances,
          monitors, cards, fetches, refresh_vars, _subscribers, plugin_vars>>

app_vars == <<services, cache, monitor_cache, clock, _instances, monitors,
              cards, fetches, refresh_vars, _subscribers, plugin_vars>>

\* ------------------------------------------------------------------------
\* Bounds of the model
\* ------------------------------------------------------------------------

\* SecurityManager.MAX_CREDENTIAL_SIZE is 2000 bytes in the source; the model
\* runs the same chunking algorithm with a chunk size of a few bytes.
MAX_CREDENTIAL_SIZE == 4

\* most chunks a credential value of the model is split into
MaxChunks == 3

\* ------------------------------------------------------------------------
\* Strings, UTF-8
\* ------------------------------------------------------------------------

\* 'A' (1 byte in UTF-8) and U+6D4B (3 bytes in UTF-8)
LATIN_A == 65
CJK_CE == 27979

\* U+FFFD, what decode(errors="replace") emits for an invalid sequence
REPLACEMENT_CHARACTER == 65533

\* Python's None; no string, since every code point is >= 0
None == <<-1>>

\* "A" * n
Pad(n) == [i \in 1..n |-> LATIN_A]

\* ASCII values: empty, one byte, exactly MAX_CREDENTIAL_SIZE bytes (the
\* longest stored unchunked), and one byte more than 1, 2, ... full chunks
AsciiStrings ==
    {Pad(0), Pad(1), Pad(MAX_CREDENTIAL_SIZE)}
    \cup {Pad(k * MAX_CREDENTIAL_SIZE + 1) : k \in 1..MaxChunks - 1}

\* values of MAX_CREDENTIAL_SIZE + 2 bytes holding one 3-byte character at
\* every byte offset of the first chunk; at the last two offsets the
\* character straddles the chunk boundary
MultiByteStrings ==
    {Pad(i) \o <<CJK_CE>> \o Pad(MAX_CREDENTIAL_SIZE - 1 - i) :
        i \in 0..MAX_CREDENTIAL_SIZE - 1}

Strings == AsciiStrings \cup MultiByteStrings

\* str.encode("utf-8") of one code point
EncodeChar(c) ==
    IF c < 128 THEN <<c>>
    ELSE IF c < 2048 THEN <<192 + (c \div 64), 128 + (c % 64)>>
    ELSE IF c < 65536
         THEN <<224 + (c \div 4096), 128 + ((c \div 64) % 64), 128 + (c % 64)>>
         ELSE <<240 + (c \div 262144), 128 + ((c \div 4096) % 64),
                128 + ((c \div 64) % 64), 128 + (c % 64)>>

RECURSIVE Encode(_)
\* value.encode("utf-8")
Encode(s) == IF s = <<>> THEN <<>> ELSE EncodeChar(Head(s)) \o Encode(Tail(s))

\* len(value.encode("utf-8"))
ByteLen(s) == Len(Encode(s))

\* number of continuation bytes a lead byte announces (0: not a lead byte)
Need(b) ==
    IF b >= 194 /\ b <= 223 THEN 1
    ELSE IF b >= 224 /\ b <= 239 THEN 2
    ELSE IF b >= 240 /\ b <= 244 THEN 3
    ELSE 0

\* is bs[i] an acceptable i-th byte (i >= 2) of the sequence led by bs[1]
ContOk(bs, i) ==
    /\ i <= Len(bs)
    /\ LET lo == IF i = 2 /\ bs[1] = 224 THEN 160
                 ELSE IF i = 2 /\ bs[1] = 240 THEN 144 ELSE 128
           hi == IF i = 2 /\ bs[1] = 237 THEN 159
                 ELSE IF i = 2 /\ bs[1] = 244 THEN 143 ELSE 191
       IN bs[i] >= lo /\ bs[i] <= hi

\* how many of the n announced continuation bytes are present and valid
RECURSIVE ValidCont(_, _, _)
ValidCont(bs, n, k) ==
    IF k < n /\ ContOk(bs, k + 2) THEN ValidCont(bs, n, k + 1) ELSE k

\* the code point of a complete sequence of 1 + n bytes
CodePoint(bs, n) ==
    IF n = 1 THEN (bs[1] - 192) * 64 + (bs[2] - 128)
    ELSE IF n = 2
         THEN (bs[1] - 224) * 4096 + (bs[2] - 128) * 64 + (bs[3] - 128)
         ELSE (bs[1] - 240) * 262144 + (bs[2] - 128) * 4096
              + (bs[3] - 128) * 64 + (bs[4] - 128)

RECURSIVE Decode(_)
\* bytes.decode("utf-8", errors="replace"): every maximal invalid subpart
\* (a stray continuation byte, a truncated sequence) becomes one U+FFFD
Decode(bs) ==
    IF bs = <<>> THEN <<>>
    ELSE IF Head(bs) < 128 THEN <<Head(bs)>> \o Decode(Tail(bs))
    ELSE LET n == Need(Head(bs))
             k == ValidCont(bs, n, 0)
         IN IF n = 0 THEN <<REPLACEMENT_CHARACTER>> \o Decode(Tail(bs))
            ELSE IF k = n
                 THEN <<CodePoint(bs, n)>> \o Decode(SubSeq(bs, n + 2, Len(bs)))
                 ELSE <<REPLACEMENT_CHARACTER>>
                      \o Decode(SubSeq(bs, k + 2, Len(bs)))

RECURSIVE ToStr(_)
\* str(n) for n >= 0, as code points ('0' is 48)
ToStr(n) == IF n < 10 THEN <<48 + n>> ELSE ToStr(n \div 10) \o <<48 + (n % 10)>>

RECURSIVE ToInt(_)
\* int(s) for a string of decimal digits
ToInt(s) ==
    IF Len(s) = 1 THEN s[1] - 48
    ELSE 10 * ToInt(SubSeq(s, 1, Len(s) - 1)) + (s[Len(s)] - 48)

\* the segment of a key that names chunk idx: f"{idx}"
IdxSeg(idx) == <<"0", "1", "2", "3", "4", "5", "6", "7", "8", "9">>[idx + 1]

\* ------------------------------------------------------------------------
\* The platform vault (keyring)
\* ------------------------------------------------------------------------

SERVICE_NAME == "CloudMonitor"

\* keyring.set_password
set_password(v, key, value) ==
    [k \in DOMAIN v \cup {key} |-> IF k = key THEN value ELSE v[k]]

\* keyring.get_password
get_password(v, key) == IF key \in DOMAIN v THEN v[key] ELSE None

\* keyring.delete_password; on an absent key the backend raises a
\* KeyringError, which every caller swallows
delete_password(v, key) == [k \in DOMAIN v \ {key} |-> v[k]]

\* A vault call raises KeyringError when its index (the calls of one
\* operation are numbered from 0) is the operation's fail argument.
NoFail == -1

\* the error a failing vault call raises
VaultError == "KeyringError"

\* a clause for another error class, which lets a vault error through
ExceptValueError(exc) == exc = "ValueError"

\* `except KeyringError`: whether the clause catches exc
ExceptKeyringError(exc) == exc = "KeyringError"

\* what get_credential yields when the error leaves it uncaught
Raised == <<-2>>

\* the result of a read whose vault call failed: the value of the except
\* clause, or the error going on to the caller
OnVaultError(fallback) == IF ExceptKeyringError(VaultError) THEN fallback ELSE Raised

\* ------------------------------------------------------------------------
\* SecurityManager
\* ------------------------------------------------------------------------

_make_key(service_id, credential_name) ==
    <<SERVICE_NAME, service_id, credential_name>>

\* the chunk list built by _set_chunked_credential: slices of the bytes of
\* at most MAX_CREDENTIAL_SIZE bytes, each decoded with errors="replace"
RECURSIVE ChunksOf(_)
ChunksOf(bytes) ==
    IF bytes = <<>> THEN <<>>
    ELSE IF Len(bytes) <= MAX_CREDENTIAL_SIZE THEN <<Decode(bytes)>>
    ELSE <<Decode(SubSeq(bytes, 1, MAX_CREDENTIAL_SIZE))>>
         \o ChunksOf(SubSeq(bytes, MAX_CREDENTIAL_SIZE + 1, Len(bytes)))

\* the loop that stores chunk idx, idx+1, ...; storing chunk i is call i+1
RECURSIVE StoreChunks(_, _, _, _, _)
StoreChunks(v, key, chunks, idx, fail) ==
    IF idx >= Len(chunks) \/ fail = idx + 1 THEN v
    ELSE StoreChunks(set_password(v, key \o <<"chunk", IdxSeg(idx)>>, chunks[idx + 1]),
                     key, chunks, idx + 1, fail)

_set_chunked_credential(v, key, value, fail) ==
    LET chunks == ChunksOf(Encode(value))
    IN IF fail = 0
       THEN [vault |-> v, ret |-> FALSE, raised |-> ~ExceptKeyringError(VaultError)]
       ELSE [vault |-> StoreChunks(set_password(v, key \o <<"chunks">>, ToStr(Len(chunks))),
                                   key, chunks, 0, fail),
             ret |-> ~(fail \in 1..Len(chunks)),
             raised |-> fail \in 1..Len(chunks) /\ ~ExceptKeyringError(VaultError)]

set_credential(v, service_id, credential_name, value, fail) ==
    LET key == _make_key(service_id, credential_name)
    IN IF ByteLen(value) > MAX_CREDENTIAL_SIZE
       THEN _set_chunked_credential(v, key, value, fail)
       ELSE IF fail = 0
            THEN [vault |-> v, ret |-> FALSE, raised |-> ~ExceptKeyringError(VaultError)]
            ELSE [vault |-> set_password(v, key, value), ret |-> TRUE, raised |-> FALSE]

\* a read that joins the chunk entries it finds and skips a missing one
RECURSIVE JoinPresent(_, _, _, _, _)
JoinPresent(v, key, chunks_count, idx, fail) ==
    IF idx >= chunks_count THEN <<>>
    ELSE IF fail = idx + 1 THEN None
    ELSE LET chunk == get_password(v, key \o <<"chunk", IdxSeg(idx)>>)
             rest == JoinPresent(v, key, chunks_count, idx + 1, fail)
         IN IF rest = None THEN None
            ELSE IF chunk = None THEN rest ELSE chunk \o rest

\* reads chunk idx, idx+1, ...; reading chunk i is call i+1
RECURSIVE _get_chunked_credential(_, _, _, _, _)
_get_chunked_credential(v, key, chunks_count, idx, fail) ==
    IF idx >= chunks_count THEN <<>>
    ELSE IF fail = idx + 1 THEN OnVaultError(None)
    ELSE LET chunk == get_password(v, key \o <<"chunk", IdxSeg(idx)>>)
             rest == _get_chunked_credential(v, key, chunks_count, idx + 1, fail)
         IN IF chunk = None THEN None
            ELSE IF rest \in {None, Raised} THEN rest ELSE chunk \o rest

get_credential(v, service_id, credential_name, fail) ==
    LET key == _make_key(service_id, credential_name)
        chunks_count == get_password(v, key \o <<"chunks">>)
    IN IF fail = 0 THEN OnVaultError(None)
       ELSE IF chunks_count # None /\ chunks_count # <<>>
            THEN _get_chunked_credential(v, key, ToInt(chunks_count), 0, fail)
            ELSE IF fail = 1 THEN OnVaultError(None) ELSE get_password(v, key)

\* deletes chunk idx, idx+1, ...; deleting chunk i is call i+1; a failed
\* delete is swallowed and the loop goes on
RECURSIVE DeleteChunks(_, _, _, _, _)
DeleteChunks(v, key, chunks_count, idx, fail) ==
    IF idx >= chunks_count THEN v
    ELSE DeleteChunks(IF fail = idx + 1 THEN v
                      ELSE delete_password(v, key \o <<"chunk", IdxSeg(idx)>>),
                      key, chunks_count, idx + 1, fail)

\* a delete that removes the chunk entries and leaves the ':chunks' entry
DeleteChunksOnly(v, key, chunks_count, fail) ==
    DeleteChunks(v, key, chunks_count, 0, fail)

\* the chunks, then the ':chunks' entry; a failed delete of it is swallowed
_delete_chunked_credential(v, key, chunks_count, fail) ==
    LET w == DeleteChunks(v, key, chunks_count, 0, fail)
    IN IF fail = chunks_count + 1 THEN w ELSE delete_password(w, key \o <<"chunks">>)

\* a delete that reports False for a key without a plain entry and without
\* a ':chunks' entry
DeleteStrict(v, service_id, credential_name, fail) ==
    LET key == _make_key(service_id, credential_name)
    IN IF key \notin DOMAIN v /\ key \o <<"chunks">> \notin DOMAIN v
       THEN [vault |-> v, ret |-> FALSE, raised |-> FALSE]
       ELSE [vault |-> [k \in {j \in DOMAIN v : SubSeq(j, 1, Len(key)) # key} |-> v[k]],
             ret |-> TRUE, raised |-> FALSE]

delete_credential(v, service_id, credential_name, fail) ==
    LET key == _make_key(service_id, credential_name)
        chunks_count == get_password(v, key \o <<"chunks">>)
        chunked == chunks_count # None /\ chunks_count # <<>>
        n == IF chunked THEN ToInt(chunks_count) ELSE 0
        w == IF chunked THEN _delete_chunked_credential(v, key, n, fail) ELSE v
        plain == IF chunked THEN n + 2 ELSE 1
    IN IF fail = 0
       THEN [vault |-> v, ret |-> FALSE, raised |-> ~ExceptKeyringError(VaultError)]
       ELSE [vault |-> IF fail = plain THEN w ELSE delete_password(w, key),
             ret |-> TRUE,
             raised |-> fail \in 1..plain /\ ~ExceptKeyringError(VaultError)]

\* the count of the ':chunks' entry of a key, 0 if it has none
ManifestCount(v, service_id, credential_name) ==
    LET chunks_count == get_password(v, _make_key(service_id, credential_name) \o <<"chunks">>)
    IN IF chunks_count # None /\ chunks_count # <<>> THEN ToInt(chunks_count) ELSE 0

\* ------------------------------------------------------------------------
\* SecurityManager, batch operations (every vault call succeeds)
\* ------------------------------------------------------------------------

\* get_credentials: the map of the names that have a stored value
get_credentials(v, service_id, credential_names) ==
    [name \in {m \in credential_names : get_credential(v, service_id, m, NoFail) # None}
        |-> get_credential(v, service_id, name, NoFail)]

RECURSIVE set_credentials(_, _, _)
\* set_credentials: set_credential for every item of the dict
set_credentials(v, service_id, credentials) ==
    IF DOMAIN credentials = {} THEN v
    ELSE LET name == CHOOSE m \in DOMAIN credentials : TRUE
             rest == [m \in DOMAIN credentials \ {name} |-> credentials[m]]
         IN set_credentials(set_credential(v, service_id, name, credentials[name], NoFail).vault,
                            service_id, rest)

RECURSIVE delete_all_credentials(_, _, _)
\* delete_all_credentials: delete_credential for every listed name
delete_all_credentials(v, service_id, credential_names) ==
    IF credential_names = {} THEN v
    ELSE LET name == CHOOSE m \in credential_names : TRUE
         IN delete_all_credentials(delete_credential(v, service_id, name, NoFail).vault,
                                   service_id, credential_names \ {name})

\* ------------------------------------------------------------------------
\* Provider registry, service registry, lifecycle manager
\* ------------------------------------------------------------------------

\* most services ever added
MaxServices == 1

\* dict without a key / with a key
Without(f, k) == [x \in DOMAIN f \ {k} |-> f[x]]
With(f, k, val) == [x \in DOMAIN f \cup {k} |-> IF x = k THEN val ELSE f[x]]

\* plugin type -> required_credentials of its class
PLUGIN_REGISTRY == [gemini_quota |-> {"api_key"}]

PluginTypes == DOMAIN PLUGIN_REGISTRY \cup {"nonexistent"}

\* ConfigManager.add_service: f"{plugin_type}_{now}", now = the clock reading
ServiceIdOf(plugin_type, now) ==
    IF plugin_type = "gemini_quota"
    THEN <<"gemini_quota_1", "gemini_quota_2", "gemini_quota_3", "gemini_quota_4">>[now]
    ELSE <<"nonexistent_1", "nonexistent_2", "nonexistent_3", "nonexistent_4">>[now]

ServiceIds ==
    {ServiceIdOf(t, n) : t \in DOMAIN PLUGIN_REGISTRY, n \in 1..MaxServices}

Aliases == {"a", "b"}
\* a short value and one that is stored in two chunks
CredValues == {Pad(1), Pad(MAX_CREDENTIAL_SIZE + 1)}

\* the credentials dicts a caller can pass: any value for the field the
\* plugin requires, with or without a field it does not require
CredMaps ==
    UNION {[fs -> CredValues] : fs \in SUBSET {"api_key"}}
    \cup {With(c, "region", Pad(1)) : c \in UNION {[fs -> CredValues] : fs \in SUBSET {"api_key"}}}

\* what PLUGIN_REGISTRY.get answers for a type that is not registered
NoClass == [absent |-> TRUE]

\* a registry that answers with a class for every type
AnyClass(plugin_type) ==
    [required_credentials |-> IF plugin_type \in DOMAIN PLUGIN_REGISTRY
                              THEN PLUGIN_REGISTRY[plugin_type] ELSE {}]

\* PluginManager.get_plugin_class: the registered class, here its
\* required_credentials, or None
get_plugin_class(plugin_type) ==
    IF plugin_type \in DOMAIN PLUGIN_REGISTRY
    THEN [required_credentials |-> PLUGIN_REGISTRY[plugin_type]]
    ELSE NoClass

\* what create_instance returns for a plugin type that is not registered
NoInstance == [absent |-> TRUE]

\* PluginManager.create_instance: None for a type that is not registered,
\* else the instance gets the stored values of the class's required
\* credentials
create_instance(v, service_id, config) ==
    IF get_plugin_class(config.plugin_type) = NoClass THEN NoInstance
    ELSE [service_id |-> service_id,
          plugin_type |-> config.plugin_type,
          alias |-> config.alias,
          credentials |-> get_credentials(v, service_id,
                              get_plugin_class(config.plugin_type).required_credentials),
          enabled |-> config.enabled]

\* set_credentials that undoes the writes of a call in which one failed
RECURSIVE SetOrRollBack(_, _, _, _)
SetOrRollBack(v, service_id, credentials, fails) ==
    IF DOMAIN credentials = {} THEN [vault |-> v, ret |-> TRUE, raised |-> FALSE]
    ELSE LET name == CHOOSE m \in DOMAIN credentials : TRUE
             r == set_credential(v, service_id, name, credentials[name], fails[name])
             rest == SetOrRollBack(r.vault, service_id, Without(credentials, name), fails)
         IN IF r.ret /\ rest.ret THEN rest
            ELSE [vault |-> v, ret |-> FALSE, raised |-> FALSE]

\* set_credentials: set_credential for every item, False if one was False;
\* fails[name] is the failing call of the set_credential of name
RECURSIVE SetEach(_, _, _, _)
SetEach(v, service_id, credentials, fails) ==
    IF DOMAIN credentials = {} THEN [vault |-> v, ret |-> TRUE, raised |-> FALSE]
    ELSE LET name == CHOOSE m \in DOMAIN credentials : TRUE
             r == set_credential(v, service_id, name, credentials[name], fails[name])
             rest == SetEach(r.vault, service_id, Without(credentials, name), fails)
         IN IF r.raised THEN r
            ELSE [vault |-> rest.vault, ret |-> r.ret /\ rest.ret, raised |-> rest.raised]

\* PluginManager.add_service; fails[name] is the failing vault call of the
\* write of the field name. The result of set_credentials is not looked at.
AddService(plugin_type, alias, credentials, fails) ==
    IF get_plugin_class(plugin_type) = NoClass
    THEN /\ last' = [op |-> "add_service", plugin_type |-> plugin_type,
                     service_id |-> "", ret |-> FALSE]
         /\ UNCHANGED <<vault, app_vars>>
    ELSE /\ clock < MaxServices
         /\ LET service_id == ServiceIdOf(plugin_type, clock + 1)
                config == [plugin_type |-> plugin_type, alias |-> alias,
                           enabled |-> TRUE, created_at |-> clock + 1]
                written == SetEach(vault, service_id, credentials, fails)
                instance == create_instance(written.vault, service_id, config)
            IN /\ clock' = clock + 1
               /\ services' = With(services, service_id, config)
               /\ vault' = written.vault
               /\ _instances' = IF instance = NoInstance THEN _instances
                                ELSE With(_instances, service_id, instance)
               /\ last' = [op |-> "add_service", plugin_type |-> plugin_type,
                           service_id |-> service_id, credentials |-> credentials,
                           fails |-> fails, stored |-> written.ret,
                           ret |-> (instance # NoInstance)]
         /\ UNCHANGED <<plugin_vars, _subscribers, cache, monitor_cache, monitors, cards, fetches, refresh_vars>>

\* ConfigManager.clear_cache(service_id): deletes from the table cache
clear_cache(c, service_id) == c \ {service_id}

\* the credential names remove_service deletes: those of the live instance
RemovedCredentials(service_id) ==
    IF service_id \in DOMAIN _instances
    THEN get_plugin_class(_instances[service_id].plugin_type).required_credentials
    ELSE {}

\* a remove that acts only on a service with a live instance
RemoveLiveOnly(service_id) ==
    IF service_id \in DOMAIN _instances
    THEN /\ vault' = delete_all_credentials(vault, service_id, RemovedCredentials(service_id))
         /\ _instances' = Without(_instances, service_id)
         /\ cache' = clear_cache(cache, service_id)
         /\ services' = Without(services, service_id)
         /\ last' = [op |-> "remove_service", service_id |-> service_id,
                     ret |-> (service_id \in DOMAIN services)]
         /\ UNCHANGED <<plugin_vars, _subscribers, monitor_cache, clock, monitors, cards, fetches, refresh_vars>>
    ELSE /\ last' = [op |-> "remove_service", service_id |-> service_id, ret |-> FALSE]
         /\ UNCHANGED <<vault, app_vars>>

\* PluginManager.remove_service
RemoveService(service_id) ==
    /\ vault' = delete_all_credentials(vault, service_id, RemovedCredentials(service_id))
    /\ _instances' = Without(_instances, service_id)
    /\ cache' = clear_cache(cache, service_id)
    /\ services' = Without(services, service_id)
    /\ last' = [op |-> "remove_service", service_id |-> service_id,
                ret |-> (service_id \in DOMAIN services)]
    /\ UNCHANGED <<plugin_vars, _subscribers, monitor_cache, clock, monitors, cards, fetches, refresh_vars>>

\* the credential names update_service_credentials deletes before it writes
\* the new ones: those of the old live instance
StaleCredentials(service_id) ==
    IF service_id \in DOMAIN _instances
    THEN get_plugin_class(_instances[service_id].plugin_type).required_credentials
    ELSE {}

\* an edit that deletes the old credentials and writes the new ones whether
\* or not credentials were passed
AlwaysRewrites(service_id, credentials) ==
    set_credentials(delete_all_credentials(vault, service_id, StaleCredentials(service_id)),
                    service_id, credentials)

\* the vault update_service_credentials leaves: with credentials the old
\* ones are deleted and the new ones written, without them nothing is done
EditedVault(service_id, credentials) ==
    IF DOMAIN credentials # {}
    THEN set_credentials(delete_all_credentials(vault, service_id, StaleCredentials(service_id)),
                         service_id, credentials)
    ELSE vault

\* PluginManager.update_service_credentials; alias "" and credentials {}
\* stand for the arguments left out (both are falsy)
UpdateServiceCredentials(service_id, alias, credentials) ==
    IF service_id \notin DOMAIN services
    THEN /\ last' = [op |-> "update_service_credentials", service_id |-> service_id,
                     alias |-> alias, credentials |-> credentials,
                     instance |-> NoInstance, ret |-> FALSE]
         /\ UNCHANGED <<vault, app_vars>>
    ELSE LET config == IF alias # ""
                       THEN [services[service_id] EXCEPT !.alias = alias]
                       ELSE services[service_id]
             v == EditedVault(service_id, credentials)
             instance == create_instance(v, service_id, config)
         IN /\ services' = [services EXCEPT ![service_id] = config]
            /\ vault' = v
            /\ _instances' = IF instance = NoInstance
                             THEN Without(_instances, service_id)
                             ELSE With(_instances, service_id, instance)
            /\ last' = [op |-> "update_service_credentials", service_id |-> service_id,
                        alias |-> alias, credentials |-> credentials,
                        instance |-> instance, ret |-> (instance # NoInstance)]
            /\ UNCHANGED <<plugin_vars, _subscribers, cache, monitor_cache, clock, monitors, cards, fetches,
                           refresh_vars>>

\* SettingsPage._on_toggle_service: ConfigManager.update_service(enabled=...)
ToggleService(service_id, enabled) ==
    /\ service_id \in DOMAIN services
    /\ services' = [services EXCEPT ![service_id].enabled = enabled]
    /\ last' = [op |-> "toggle", service_id |-> service_id]
    /\ UNCHANGED <<plugin_vars, _subscribers, vault, cache, monitor_cache, clock, _instances, monitors,
                   cards, fetches, refresh_vars>>

\* PluginManager.load_enabled_services: an instance for every enabled record
\* for which create_instance returns one
load_enabled_services ==
    [id \in {i \in DOMAIN services :
                /\ services[i].enabled
                /\ create_instance(vault, i, services[i]) # NoInstance}
        |-> create_instance(vault, id, services[id])]

\* ------------------------------------------------------------------------
\* Dashboard: refresh orchestrator
\* ------------------------------------------------------------------------

\* most _refresh_all_async calls that pass the guard
MaxRuns == 2

\* most auto-refresh tasks ever created
MaxLoops == 2

\* services registered when the dashboard is constructed
NumMonitors == 2

\* values of the interval dropdown (REFRESH_INTERVALS), 0 is "off"
Intervals == {0, 60}

\* a _refresh_monitor coroutine awaiting monitor.refresh(); run is the index
\* of the refresh-all run that gathered it
Fetch(monitor, run) == [monitor |-> monitor, run |-> run]

\* the children of run r that are still awaiting their fetch
InFlight(r) == {f \in fetches : f.run = r}

\* the monitors _refresh_all_async creates a task for
EnabledMonitors == {id \in DOMAIN monitors : monitors[id].enabled}

\* a guard that lets every call through
NeverReentrant == FALSE

\* the guard of _refresh_all_async: a call made while a run is in progress
\* returns at once
Reentrant == _is_refreshing

\* _refresh_all_async called by owner, up to its await of asyncio.gather:
\* the new values of _is_refreshing, runs and fetches, and whether the call
\* passed the guard.  With no enabled monitor gather returns at once and the
\* call runs to its end.
_refresh_all_async(owner) ==
    IF Reentrant
    THEN [started |-> FALSE, flag |-> _is_refreshing, runs |-> runs, fetches |-> fetches,
          published |-> <<>>]
    ELSE LET r == Len(runs) + 1
             ids == EnabledMonitors
             run == [owner |-> owner, ids |-> ids, returned |-> {}, raised |-> {},
                     cancelled |-> {},
                     state |-> IF ids = {} THEN "done" ELSE "gather"]
         IN [started |-> TRUE,
             flag |-> (ids # {}),
             runs |-> Append(runs, run),
             fetches |-> fetches \cup {Fetch(monitors[id], r) : id \in ids},
             published |-> IF ids = {} THEN <<"refresh_started", "refresh_completed">>
                           ELSE <<"refresh_started">>]

\* Task.cancel() on auto-refresh task l.  A task asleep ends at its
\* CancelledError.  A task awaiting the gather of its run passes the
\* cancellation to every child still in flight, none of which reaches its
\* cache write, and _refresh_all_async ends at the CancelledError, before it
\* resets _is_refreshing.
Cancelled(l) ==
    LET mine == {r \in DOMAIN runs :
                    runs[r].owner = <<"loop", l>> /\ runs[r].state = "gather"}
    IN [loops |-> [loops EXCEPT ![l] = "cancelled"],
        runs |-> [r \in DOMAIN runs |->
                    IF r \in mine
                    THEN [runs[r] EXCEPT
                            !.state = "cancelled",
                            !.cancelled = {f.monitor.service_id : f \in InFlight(r)}]
                    ELSE runs[r]],
        fetches |-> {f \in fetches : f.run \notin mine},
        task |-> 0]

\* a stop that drops the handle and leaves the task running
DropHandle ==
    [loops |-> loops, runs |-> runs, fetches |-> fetches, task |-> 0]

\* _stop_auto_refresh: cancels the task if there is one that is not done
_stop_auto_refresh ==
    IF _auto_refresh_task # 0 /\ loops[_auto_refresh_task] \in {"sleeping", "refreshing"}
    THEN Cancelled(_auto_refresh_task)
    ELSE [loops |-> loops, runs |-> runs, fetches |-> fetches, task |-> _auto_refresh_task]

\* _start_auto_refresh with the interval already set to interval
_start_auto_refresh(interval) ==
    LET s == _stop_auto_refresh
    IN IF interval > 0
       THEN [s EXCEPT !.loops = Append(s.loops, "sleeping"), !.task = Len(s.loops) + 1]
       ELSE s

\* DashboardPage._on_interval_change
OnIntervalChange(value) ==
    LET s == _start_auto_refresh(value)
    IN /\ Len(s.loops) <= MaxLoops
       /\ _auto_refresh_interval' = value
       /\ _auto_refresh_task' = s.task
       /\ loops' = s.loops
       /\ runs' = s.runs
       /\ fetches' = s.fetches
       /\ last' = [op |-> "interval_change", published |-> <<>>]
       /\ UNCHANGED <<plugin_vars, _subscribers, vault, services, cache, monitor_cache, clock, _instances,
                      monitors, cards, _is_refreshing>>

\* DashboardPage.dispose
Dispose ==
    LET s == _stop_auto_refresh
    IN /\ _auto_refresh_task' = s.task
       /\ loops' = s.loops
       /\ runs' = s.runs
       /\ fetches' = s.fetches
       /\ last' = [op |-> "dispose", published |-> <<>>]
       /\ UNCHANGED <<plugin_vars, _subscribers, vault, services, cache, monitor_cache, clock, _instances,
                      monitors, cards, _is_refreshing, _auto_refresh_interval>>

\* DashboardPage._on_refresh_all: page.run_task(_refresh_all_async)
OnRefreshAll ==
    LET c == _refresh_all_async(<<"button">>)
    IN /\ Len(c.runs) <= MaxRuns
       /\ _is_refreshing' = c.flag
       /\ runs' = c.runs
       /\ fetches' = c.fetches
       /\ last' = [op |-> "refresh_all", started |-> c.started, published |-> c.published]
       /\ UNCHANGED <<plugin_vars, _subscribers, vault, services, cache, monitor_cache, clock, _instances,
                      monitors, cards, _auto_refresh_interval, _auto_refresh_task, loops>>

\* _auto_refresh_loop, task l wakes from asyncio.sleep: it ends if the
\* interval is off, else it calls _refresh_all_async and, unless that
\* awaits a gather, sleeps again
LoopTick(l) ==
    /\ l \in DOMAIN loops
    /\ loops[l] = "sleeping"
    /\ IF _auto_refresh_interval <= 0
       THEN /\ loops' = [loops EXCEPT ![l] = "done"]
            /\ last' = [op |-> "tick", started |-> FALSE, published |-> <<>>]
            /\ UNCHANGED <<_is_refreshing, runs, fetches>>
       ELSE LET c == _refresh_all_async(<<"loop", l>>)
            IN /\ Len(c.runs) <= MaxRuns
               /\ _is_refreshing' = c.flag
               /\ runs' = c.runs
               /\ fetches' = c.fetches
               /\ loops' = IF c.flag /\ c.started
                           THEN [loops EXCEPT ![l] = "refreshing"] ELSE loops
               /\ last' = [op |-> "tick", started |-> c.started, published |-> c.published]
    /\ UNCHANGED <<plugin_vars, _subscribers, vault, services, cache, monitor_cache, clock, _instances,
                   monitors, cards, _auto_refresh_interval, _auto_refresh_task>>

\* DashboardPage.initial_load: awaits _refresh_all_async, then
\* _start_auto_refresh; here up to the await of the gather
InitialLoad ==
    LET c == _refresh_all_async(<<"initial_load">>)
        s == _start_auto_refresh(_auto_refresh_interval)
    IN /\ Len(c.runs) <= MaxRuns
       /\ IF c.flag /\ c.started
          THEN /\ _is_refreshing' = c.flag
               /\ runs' = c.runs
               /\ fetches' = c.fetches
               /\ UNCHANGED <<_auto_refresh_task, loops>>
          ELSE /\ Len(s.loops) <= MaxLoops
               /\ _is_refreshing' = c.flag
               /\ runs' = [r \in DOMAIN c.runs |->
                             IF r \in DOMAIN s.runs THEN s.runs[r] ELSE c.runs[r]]
               /\ fetches' = s.fetches
               /\ _auto_refresh_task' = s.task
               /\ loops' = s.loops
       /\ last' = [op |-> "initial_load", started |-> c.started, published |-> c.published]
       /\ UNCHANGED <<plugin_vars, _subscribers, vault, services, cache, monitor_cache, clock, _instances,
                      monitors, cards, _auto_refresh_interval>>

\* _refresh_all_async after its gather: every child of run r has finished;
\* the flag is reset, refresh-completed is published, and the caller goes on
\* (the auto-refresh task sleeps again, initial_load starts the auto-refresh)
RunDone(r) ==
    /\ r \in DOMAIN runs
    /\ runs[r].state = "gather"
    /\ InFlight(r) = {}
    /\ _is_refreshing' = FALSE
    /\ LET done == [runs EXCEPT ![r].state = "done"]
           owner == runs[r].owner
           s == _start_auto_refresh(_auto_refresh_interval)
       IN IF owner = <<"initial_load">>
          THEN /\ Len(s.loops) <= MaxLoops
               /\ runs' = [q \in DOMAIN done |->
                             IF q = r THEN done[q] ELSE s.runs[q]]
               /\ fetches' = s.fetches
               /\ _auto_refresh_task' = s.task
               /\ loops' = s.loops
          ELSE /\ runs' = done
               /\ loops' = IF owner = <<"button">> THEN loops
                           ELSE [loops EXCEPT ![owner[2]] = "sleeping"]
               /\ UNCHANGED <<fetches, _auto_refresh_task>>
    /\ last' = [op |-> "run_done", run |-> r, published |-> <<"refresh_completed">>]
    /\ UNCHANGED <<plugin_vars, _subscribers, vault, services, cache, monitor_cache, clock, _instances,
                   monitors, cards, _auto_refresh_interval>>

\* a loop that an exception of its tick ends
EndsLoop == "done"

\* _auto_refresh_loop after its _refresh_all_async raised an exception that
\* is not a cancellation: except Exception prints it and the while loop goes
\* on to the next sleep
AfterTickRaise == "sleeping"

\* _refresh_all_async after its gather, when app_page.update() raises: the
\* flag is reset already, refresh-completed is not published and the
\* exception reaches the caller. The auto-refresh task catches it;
\* initial_load ends with it, before it starts the auto-refresh.
RunRaise(r) ==
    /\ r \in DOMAIN runs
    /\ runs[r].state = "gather"
    /\ InFlight(r) = {}
    /\ _is_refreshing' = FALSE
    /\ runs' = [runs EXCEPT ![r].state = "raised"]
    /\ loops' = IF runs[r].owner[1] = "loop"
                THEN [loops EXCEPT ![runs[r].owner[2]] = AfterTickRaise]
                ELSE loops
    /\ last' = [op |-> "run_raise", run |-> r, owner |-> runs[r].owner,
                published |-> <<>>]
    /\ UNCHANGED <<plugin_vars, _subscribers, vault, services, cache, monitor_cache,
                   clock, _instances, monitors, cards, fetches,
                   _auto_refresh_interval, _auto_refresh_task>>

\* the run record of r after its child for service_id ended in the given way
Ended(r, service_id, how) ==
    [runs EXCEPT ![r] =
        IF how = "returned"
        THEN [@ EXCEPT !.returned = @ \cup {service_id}]
        ELSE [@ EXCEPT !.raised = @ \cup {service_id}]]

\* MonitorResult.model_dump_json: the result_json text of a row; a text
\* either validates as a MonitorResult or does not
model_dump_json(result) == [json |-> TRUE, result |-> result]

\* a result_json text that MonitorResult.model_validate_json rejects
CorruptBlob == [json |-> FALSE]

\* what load returns for no result (None)
NoResult == [absent |-> TRUE]

\* a save that keeps the row a service already has (INSERT OR IGNORE)
SaveIfAbsent(c, service_id, result) ==
    IF service_id \in DOMAIN c THEN c ELSE With(c, service_id, model_dump_json(result))

\* CacheManager.save: INSERT OR REPLACE of the row of service_id
save(c, service_id, result) == With(c, service_id, model_dump_json(result))

\* CacheManager.delete: the cache without the row, and whether there was one
delete(c, service_id) ==
    [cache |-> Without(c, service_id), ret |-> service_id \in DOMAIN c]

\* a load that returns None for a row it cannot validate and leaves the row
LoadKeepsRow(c, service_id) ==
    IF service_id \in DOMAIN c /\ c[service_id].json
    THEN [cache |-> c, ret |-> c[service_id].result]
    ELSE [cache |-> c, ret |-> NoResult]

\* CacheManager.load: None for no row; the validated result; or, when
\* validation raises, the row is deleted and None returned
load(c, service_id) ==
    IF service_id \notin DOMAIN c THEN [cache |-> c, ret |-> NoResult]
    ELSE IF c[service_id].json THEN [cache |-> c, ret |-> c[service_id].result]
    ELSE [cache |-> delete(c, service_id).cache, ret |-> NoResult]

\* CacheManager.has_cache
has_cache(c, service_id) == service_id \in DOMAIN c

\* a scan that ends at the first row it cannot validate
RECURSIVE ScanUntilCorrupt(_, _)
ScanUntilCorrupt(c, rows) ==
    IF rows = <<>> \/ ~c[Head(rows)].json THEN <<>>
    ELSE With(ScanUntilCorrupt(c, Tail(rows)), Head(rows), c[Head(rows)].result)

\* CacheManager.load_all: the cursor yields the rows in the order rows; a
\* row that validates is put into the result, another is skipped
RECURSIVE load_all(_, _)
load_all(c, rows) ==
    IF rows = <<>> THEN <<>>
    ELSE IF c[Head(rows)].json
         THEN With(load_all(c, Tail(rows)), Head(rows), c[Head(rows)].result)
         ELSE load_all(c, Tail(rows))

\* a publish that comes before the cache write
PublishFirst(before, saved) == before

\* the cache a handler of cache-updated finds when EventBus.publish calls
\* it: _refresh_monitor has called save and has not awaited since
AtPublish(before, saved) == saved

\* _refresh_monitor, monitor.refresh() returns a result (raw_error: the
\* plugin caught an SDK error and built an error result): the cache row is
\* written, then cache-updated is published
FetchReturn(f, raw_error) ==
    /\ f \in fetches
    /\ LET result == [raw_error |-> raw_error, run |-> f.run]
           saved == save(monitor_cache, f.monitor.service_id, result)
       IN /\ monitor_cache' = saved
          /\ last' = [op |-> "fetch_return", service_id |-> f.monitor.service_id,
                      run |-> f.run, result |-> result,
                      published |-> <<"cache_updated", f.monitor.service_id>>,
                      handler_loads |-> load(AtPublish(monitor_cache, saved),
                                             f.monitor.service_id).ret]
    /\ fetches' = fetches \ {f}
    /\ runs' = Ended(f.run, f.monitor.service_id, "returned")
    /\ UNCHANGED <<plugin_vars, _subscribers, vault, services, cache, clock, _instances, monitors, cards,
                   _is_refreshing, _auto_refresh_interval, _auto_refresh_task, loops>>

\* a failure that propagates to the gather and takes the siblings with it
RaiseCancelsSiblings(f) ==
    [fetches |-> {g \in fetches : g.run # f.run},
     runs |-> [runs EXCEPT ![f.run] =
                 [@ EXCEPT !.raised = @ \cup {f.monitor.service_id},
                           !.cancelled = {g.monitor.service_id :
                                            g \in InFlight(f.run) \ {f}}]],
     monitor_cache |-> monitor_cache]

\* what the except branch of _refresh_monitor does to the other coroutines
\* and to the cache: nothing
AfterRaise(f) ==
    [fetches |-> fetches \ {f},
     runs |-> Ended(f.run, f.monitor.service_id, "raised"),
     monitor_cache |-> monitor_cache]

\* _refresh_monitor, monitor.refresh() raises: the exception is caught, the
\* card shows an error result and refresh-failed is published
FetchRaise(f) ==
    /\ f \in fetches
    /\ fetches' = AfterRaise(f).fetches
    /\ runs' = AfterRaise(f).runs
    /\ monitor_cache' = AfterRaise(f).monitor_cache
    /\ last' = [op |-> "fetch_raise", service_id |-> f.monitor.service_id, run |-> f.run,
                published |-> <<"refresh_failed", f.monitor.service_id>>]
    /\ UNCHANGED <<plugin_vars, _subscribers, vault, services, cache, clock, _instances, monitors,
                   cards, _is_refreshing, _auto_refresh_interval, _auto_refresh_task, loops>>

\* what the fetch of an instance can do: return a result, return a result
\* that bears raw_error, or raise
Outcomes == {"result", "error_result", "raises"}

\* PluginManager.refresh_all: refresh() of every enabled instance in turn;
\* an instance whose refresh returned is put into the returned dict, an
\* exception is printed
RefreshAll(outcomes) ==
    /\ DOMAIN outcomes = {id \in DOMAIN _instances : _instances[id].enabled}
    /\ last' = [op |-> "refresh_all",
                enabled |-> DOMAIN outcomes,
                raised |-> {id \in DOMAIN outcomes : outcomes[id] = "raises"},
                ret |-> [id \in {i \in DOMAIN outcomes : outcomes[i] # "raises"}
                           |-> [raw_error |-> (outcomes[id] = "error_result")]]]
    /\ UNCHANGED <<vault, app_vars>>

\* a refresh that lets the exception of refresh() through
RefreshUnguarded(instances, service_id, outcome) ==
    IF service_id \notin DOMAIN instances
    THEN [fetched |-> FALSE, ret |-> FALSE, raised |-> FALSE]
    ELSE [fetched |-> TRUE, ret |-> outcome # "raises", raised |-> outcome = "raises"]

\* PluginManager.refresh_single_service: False without a live instance, else
\* refresh() is awaited inside try / except Exception: True if it returned,
\* False if it raised
refresh_single_service(instances, service_id, outcome) ==
    IF service_id \notin DOMAIN instances
    THEN [fetched |-> FALSE, ret |-> FALSE, raised |-> FALSE]
    ELSE [fetched |-> TRUE, ret |-> outcome # "raises", raised |-> FALSE]

\* SettingsPage._refresh_service_async: refresh_single_service, then a
\* snack bar; fetch is the result refresh() stored in the instance
RefreshSingleService(service_id, outcome) ==
    LET r == refresh_single_service(_instances, service_id, outcome)
    IN /\ last' = [op |-> "refresh_single_service", service_id |-> service_id,
                   outcome |-> outcome, fetched |-> r.fetched, ret |-> r.ret,
                   raised |-> r.raised,
                   result |-> IF r.fetched /\ outcome # "raises"
                              THEN [monitor |-> service_id,
                                    raw_error |-> (outcome = "error_result")]
                              ELSE NoResult]
       /\ UNCHANGED <<vault, app_vars>>

\* a new process: PluginManager.__init__ leaves _instances empty, then
\* load_enabled_services fills it
Restart ==
    /\ _instances' = load_enabled_services
    /\ last' = [op |-> "restart"]
    /\ UNCHANGED <<plugin_vars, _subscribers, vault, services, cache, monitor_cache, clock, monitors, cards,
                   fetches, refresh_vars>>

\* the ids of a set of records in the order of created_at
RECURSIVE ByCreatedAt(_, _)
ByCreatedAt(s, ids) ==
    IF ids = {} THEN <<>>
    ELSE LET first == CHOOSE i \in ids : \A j \in ids : s[i].created_at <= s[j].created_at
         IN <<first>> \o ByCreatedAt(s, ids \ {first})

\* ConfigManager.get_enabled_services: WHERE enabled = 1 ORDER BY created_at
get_enabled_services(s) == ByCreatedAt(s, {i \in DOMAIN s : s[i].enabled})

\* a load that stops at the first record create_instance returns None for
RECURSIVE LoadUntilNone(_, _, _)
LoadUntilNone(v, s, ids) ==
    IF ids = <<>> THEN <<>>
    ELSE LET instance == create_instance(v, Head(ids), s[Head(ids)])
         IN IF instance = NoInstance THEN <<>>
            ELSE <<instance>> \o LoadUntilNone(v, s, Tail(ids))

\* the loop of load_enabled_services: create_instance for each record, the
\* instance appended to the list unless it is None
RECURSIVE LoadEach(_, _, _)
LoadEach(v, s, ids) ==
    IF ids = <<>> THEN <<>>
    ELSE LET instance == create_instance(v, Head(ids), s[Head(ids)])
         IN IF instance = NoInstance THEN LoadEach(v, s, Tail(ids))
            ELSE <<instance>> \o LoadEach(v, s, Tail(ids))

\* PluginManager.load_enabled_services as an operation: returns the list and
\* leaves each created instance in _instances
LoadEnabledServices ==
    LET loaded == LoadEach(vault, services, get_enabled_services(services))
        ids == {loaded[i].service_id : i \in DOMAIN loaded}
    IN /\ _instances' = [id \in DOMAIN _instances \cup ids |->
                            IF id \in ids
                            THEN loaded[CHOOSE i \in DOMAIN loaded : loaded[i].service_id = id]
                            ELSE _instances[id]]
       /\ last' = [op |-> "load_enabled_services", ret |-> loaded]
       /\ UNCHANGED <<plugin_vars, _subscribers, vault, services, cache, monitor_cache, clock, monitors, cards,
                      fetches, refresh_vars>>

\* ------------------------------------------------------------------------
\* MonitorResult
\* ------------------------------------------------------------------------

\* most metrics of a result
MaxMetrics == 4

\* MetricData.status
Statuses == {"normal", "warning", "error"}

\* raw_error: None, the empty string or a message
RawErrors == {None, <<>>, Pad(1)}

\* the results: a raw_error and the statuses of up to MaxMetrics metrics
MonitorResults ==
    [raw_error : RawErrors,
     metrics : UNION {[1..n -> Statuses] : n \in 0..MaxMetrics}]

\* MonitorResult.has_error
has_error(result) == result.raw_error # None

\* status_priority.get(status, 0)
status_priority(status) ==
    IF status = "error" THEN 2 ELSE IF status = "warning" THEN 1 ELSE 0

\* a status that is the one of the last metric
LastStatus(result) ==
    IF has_error(result) THEN "error"
    ELSE IF result.metrics = <<>> THEN "normal"
    ELSE result.metrics[Len(result.metrics)]

\* the loop of overall_status from metric i on: max_status becomes the
\* status of a metric of higher priority
RECURSIVE MaxStatus(_, _, _)
MaxStatus(metrics, i, max_status) ==
    IF i > Len(metrics) THEN max_status
    ELSE IF status_priority(metrics[i]) > status_priority(max_status)
    THEN MaxStatus(metrics, i + 1, metrics[i])
    ELSE MaxStatus(metrics, i + 1, max_status)

\* MonitorResult.overall_status
overall_status(result) ==
    IF has_error(result) THEN "error"
    ELSE MaxStatus(result.metrics, 1, "normal")

\* a read of overall_status of a result
OverallStatus(result) ==
    /\ last' = [op |-> "overall_status", result |-> result,
                ret |-> overall_status(result)]
    /\ UNCHANGED <<vault, app_vars>>

NextStatus == \E result \in MonitorResults : OverallStatus(result)

\* ------------------------------------------------------------------------
\* Plugin discovery
\* ------------------------------------------------------------------------

\* the plugin types that the sub-packages of plugins register when imported
Scannable == {"gemini_quota", "aws_cost"}

\* the plugin types a caller registers with register_plugin
Registrable == {"mock_service"}

\* the plugin types a caller asks for
AskedTypes == Scannable \cup Registrable \cup {"nonexistent"}

\* a guard that lets every call scan
AlwaysScan(loaded) == TRUE

\* the guard of discover_plugins and get_plugin_class: if not self._loaded
NeedsScan(loaded) == ~loaded

\* _load_plugins behind its guard. imported are the types of the
\* sub-packages whose import succeeded (an ImportError is printed); raises
\* says that an import raised another exception, which leaves _loaded as
\* it was.
LoadPlugins(imported, raises) ==
    IF NeedsScan(_loaded)
    THEN /\ registry' = registry \cup imported
         /\ _loaded' = ~raises
         /\ scans' = IF raises THEN scans ELSE scans + 1
    ELSE UNCHANGED plugin_vars

\* PluginManager.discover_plugins
DiscoverPlugins(imported, raises) ==
    /\ LoadPlugins(imported, raises)
    /\ last' = [op |-> "discover_plugins", scanned |-> NeedsScan(_loaded),
                raised |-> NeedsScan(_loaded) /\ raises,
                ret |-> IF NeedsScan(_loaded) /\ raises THEN {} ELSE registry']
    /\ UNCHANGED <<vault, services, cache, monitor_cache, clock, _instances,
                   monitors, cards, fetches, refresh_vars, _subscribers>>

\* PluginManager.get_plugin_class as an operation: PLUGIN_REGISTRY.get
GetPluginClass(plugin_type, imported, raises) ==
    /\ LoadPlugins(imported, raises)
    /\ last' = [op |-> "get_plugin_class", plugin_type |-> plugin_type,
                scanned |-> NeedsScan(_loaded),
                raised |-> NeedsScan(_loaded) /\ raises,
                ret |-> IF NeedsScan(_loaded) /\ raises THEN NoClass
                        ELSE IF plugin_type \in registry'
                        THEN [plugin_type |-> plugin_type]
                        ELSE NoClass]
    /\ UNCHANGED <<vault, services, cache, monitor_cache, clock, _instances,
                   monitors, cards, fetches, refresh_vars, _subscribers>>

\* register_plugin(plugin_type) applied to a class
RegisterPlugin(plugin_type) ==
    /\ registry' = registry \cup {plugin_type}
    /\ last' = [op |-> "register_plugin", plugin_type |-> plugin_type]
    /\ UNCHANGED <<vault, services, cache, monitor_cache, clock, _instances,
                   monitors, cards, fetches, refresh_vars, _subscribers,
                   _loaded, scans>>

NextDiscover ==
    \/ \E imported \in SUBSET Scannable, raises \in BOOLEAN :
          DiscoverPlugins(imported, raises)
    \/ \E t \in AskedTypes, imported \in SUBSET Scannable, raises \in BOOLEAN :
          GetPluginClass(t, imported, raises)
    \/ \E t \in Registrable : RegisterPlugin(t)

\* ------------------------------------------------------------------------
\* Event bus
\* ------------------------------------------------------------------------

\* two members of EventType
EventTypes == {"cache_updated", "refresh_completed"}

\* most callbacks subscribed to one event type
NumCallbacks == 3

\* the callbacks
Callbacks == 1..NumCallbacks

\* what a call of a callback does: it returns or it raises an Exception
CallbackOutcomes == {"returns", "raises"}

\* a dict without subscribers; a missing key and an empty list are read the
\* same way by every method
NoSubscribers == [t \in EventTypes |-> <<>>]

\* callback in list
Has(callbacks, callback) == \E i \in DOMAIN callbacks : callbacks[i] = callback

\* list.remove(callback): drops the first occurrence
RECURSIVE Remove(_, _)
Remove(callbacks, callback) ==
    IF callbacks = <<>> THEN <<>>
    ELSE IF Head(callbacks) = callback THEN Tail(callbacks)
    ELSE <<Head(callbacks)>> \o Remove(Tail(callbacks), callback)

\* EventBus.subscribe
Subscribe(event_type, callback) ==
    /\ _subscribers' = [_subscribers EXCEPT ![event_type] =
                           IF Has(@, callback) THEN @ ELSE Append(@, callback)]
    /\ last' = [op |-> "subscribe", type |-> event_type, callback |-> callback]
    /\ UNCHANGED <<plugin_vars, vault, services, cache, monitor_cache, clock, _instances,
                   monitors, cards, fetches, refresh_vars>>

\* EventBus.unsubscribe
Unsubscribe(event_type, callback) ==
    /\ _subscribers' = [_subscribers EXCEPT ![event_type] = Remove(@, callback)]
    /\ last' = [op |-> "unsubscribe", type |-> event_type, callback |-> callback]
    /\ UNCHANGED <<plugin_vars, vault, services, cache, monitor_cache, clock, _instances,
                   monitors, cards, fetches, refresh_vars>>

\* EventBus.unsubscribe_all(event_type)
UnsubscribeAll(event_type) ==
    /\ _subscribers' = [_subscribers EXCEPT ![event_type] = <<>>]
    /\ last' = [op |-> "unsubscribe_all", type |-> event_type]
    /\ UNCHANGED <<plugin_vars, vault, services, cache, monitor_cache, clock, _instances,
                   monitors, cards, fetches, refresh_vars>>

\* a delivery that the first raising callback ends
RECURSIVE DeliverUntilRaise(_, _, _)
DeliverUntilRaise(callbacks, i, outcomes) ==
    IF i > Len(callbacks) THEN [delivered |-> <<>>, caught |-> <<>>, raised |-> FALSE]
    ELSE IF outcomes[callbacks[i]] = "raises"
    THEN [delivered |-> <<callbacks[i]>>, caught |-> <<>>, raised |-> TRUE]
    ELSE LET rest == DeliverUntilRaise(callbacks, i + 1, outcomes)
         IN [delivered |-> <<callbacks[i]>> \o rest.delivered,
             caught |-> rest.caught, raised |-> rest.raised]

\* the loop of EventBus.publish from position i of the list: each callback
\* is called (awaited if it is a coroutine function) inside try / except
\* Exception, which prints the exception and goes on; caught lists the
\* callbacks whose exception was printed
RECURSIVE Deliver(_, _, _)
Deliver(callbacks, i, outcomes) ==
    IF i > Len(callbacks) THEN [delivered |-> <<>>, caught |-> <<>>, raised |-> FALSE]
    ELSE LET rest == Deliver(callbacks, i + 1, outcomes)
         IN [delivered |-> <<callbacks[i]>> \o rest.delivered,
             caught |-> IF outcomes[callbacks[i]] = "raises"
                        THEN <<callbacks[i]>> \o rest.caught ELSE rest.caught,
             raised |-> rest.raised]

\* EventBus.publish of an event of the type; outcomes[c] is what callback c
\* does when it is called
Publish(event_type, outcomes) ==
    LET done == Deliver(_subscribers[event_type], 1, outcomes)
    IN /\ last' = [op |-> "publish", type |-> event_type, outcomes |-> outcomes,
                   delivered |-> done.delivered, caught |-> done.caught,
                   raised |-> done.raised]
       /\ UNCHANGED <<vault, app_vars>>

NextBus ==
    \/ \E t \in EventTypes, c \in Callbacks : Subscribe(t, c)
    \/ \E t \in EventTypes, c \in Callbacks : Unsubscribe(t, c)
    \/ \E t \in EventTypes : UnsubscribeAll(t)
    \/ \E t \in EventTypes, outcomes \in [Callbacks -> CallbackOutcomes] :
          Publish(t, outcomes)

\* ------------------------------------------------------------------------
\* Credential store as a state machine
\* ------------------------------------------------------------------------

VaultIds == {"svc"}
VaultNames == {"api_key"}

\* most vault calls one operation can make: sentinel, chunks, plain entry
MaxCalls == MaxChunks + 2
Fails == {NoFail} \cup (0..MaxCalls - 1)

Init ==
    /\ vault = <<>>
    /\ last = [op |-> "init"]
    /\ services = <<>>
    /\ cache = {}
    /\ monitor_cache = <<>>
    /\ clock = 0
    /\ _instances = <<>>
    /\ monitors = <<>>
    /\ cards = {}
    /\ fetches = {}
    /\ _is_refreshing = FALSE
    /\ _auto_refresh_interval = 0
    /\ _auto_refresh_task = 0
    /\ loops = <<>>
    /\ runs = <<>>
    /\ _subscribers = NoSubscribers
    /\ _loaded = FALSE
    /\ registry = {}
    /\ scans = 0

SetCredential(id, name, value, fail) ==
    LET r == set_credential(vault, id, name, value, fail)
    IN /\ vault' = r.vault
       /\ last' = [op |-> "set", service_id |-> id, name |-> name, value |-> value,
                   ret |-> r.ret, empty |-> (DOMAIN vault = {}),
                   nofail |-> (fail = NoFail)]
       /\ UNCHANGED app_vars

GetCredential(id, name, fail) ==
    /\ last' = [op |-> "get", service_id |-> id, name |-> name,
                ret |-> get_credential(vault, id, name, fail)]
    /\ UNCHANGED <<vault, app_vars>>

DeleteCredential(id, name, fail) ==
    LET r == delete_credential(vault, id, name, fail)
    IN /\ vault' = r.vault
       /\ last' = [op |-> "delete", service_id |-> id, name |-> name,
                   ret |-> r.ret, nofail |-> (fail = NoFail),
                   chunks |-> ManifestCount(vault, id, name),
                   absent |-> /\ _make_key(id, name) \notin DOMAIN vault
                              /\ _make_key(id, name) \o <<"chunks">> \notin DOMAIN vault]
       /\ UNCHANGED app_vars

NextVault ==
    \/ \E id \in VaultIds, name \in VaultNames, value \in Strings, fail \in Fails :
          SetCredential(id, name, value, fail)
    \/ \E id \in VaultIds, name \in VaultNames, fail \in Fails :
          GetCredential(id, name, fail)
    \/ \E id \in VaultIds, name \in VaultNames, fail \in Fails :
          DeleteCredential(id, name, fail)

SpecVault == Init /\ [][NextVault]_vars

\* C1: a value longer than MAX_CREDENTIAL_SIZE bytes that is set on an empty
\* vault is read back exactly, wherever its multi-byte characters fall.
ChunkRoundTrip ==
    (last.op = "set" /\ last.empty /\ last.ret
        /\ ByteLen(last.value) > MAX_CREDENTIAL_SIZE)
    => get_credential(vault, last.service_id, last.name, NoFail) = last.value

\* C2: after a set that returned true, get returns the value just set,
\* whatever the key held before (a shorter or longer, chunked or unchunked
\* value).  Stated for the ASCII values, which chunking itself keeps intact.
OverwriteReadsNew ==
    (last.op = "set" /\ last.ret /\ last.value \in AsciiStrings)
    => get_credential(vault, last.service_id, last.name, NoFail) = last.value

\* ------------------------------------------------------------------------
\* Service lifecycle as a state machine
\* ------------------------------------------------------------------------

NextLife ==
    \/ \E t \in PluginTypes, a \in Aliases, c \in CredMaps :
          \E fails \in [DOMAIN c -> Fails] : AddService(t, a, c, fails)
    \/ \E id \in ServiceIds : RemoveService(id)
    \/ \E id \in ServiceIds, a \in Aliases \cup {""}, c \in CredMaps :
          UpdateServiceCredentials(id, a, c)
    \/ \E id \in ServiceIds, e \in BOOLEAN : ToggleService(id, e)
    \/ Restart
    \/ \E ids \in SUBSET ServiceIds : \E outcomes \in [ids -> Outcomes] :
          RefreshAll(outcomes)
    \/ \E id \in ServiceIds, outcome \in Outcomes : RefreshSingleService(id, outcome)

SpecLife == Init /\ [][NextLife]_vars

\* C3: after remove_service returned true, the vault holds no entry of the
\* removed service, whatever credentials were supplied and whether or not a
\* live instance existed.
NoCredentialsAfterRemove ==
    (last.op = "remove_service" /\ last.ret)
    => \A key \in DOMAIN vault : key[2] # last.service_id

\* the field names any credentials dict of the model uses
CredFields == UNION {DOMAIN c : c \in CredMaps}

\* C10: after update_service_credentials(id, credentials=C) returned an
\* instance, the credential store returns for id exactly the values of C.
NoStaleSecretAfterEdit ==
    (last.op = "update_service_credentials" /\ last.ret
        /\ DOMAIN last.credentials # {})
    => \A name \in CredFields :
          get_credential(vault, last.service_id, name, NoFail)
            = IF name \in DOMAIN last.credentials
              THEN last.credentials[name] ELSE None

\* ------------------------------------------------------------------------
\* Dashboard refresh as a state machine
\* ------------------------------------------------------------------------

\* the services of the registry the application starts with
Registered == {ServiceIdOf("gemini_quota", n) : n \in 1..NumMonitors}

\* the application starts on a registry of NumMonitors enabled services whose
\* API keys are stored; main builds the dashboard, which loads the monitors
\* and gives each a card
InitRefresh ==
    /\ services = [id \in Registered |->
                     [plugin_type |-> "gemini_quota", alias |-> "a", enabled |-> TRUE,
                      created_at |-> CHOOSE n \in 1..NumMonitors :
                                        ServiceIdOf("gemini_quota", n) = id]]
    /\ vault = [key \in {<<SERVICE_NAME, id, "api_key">> : id \in Registered} |-> Pad(1)]
    /\ clock = NumMonitors
    /\ _instances = load_enabled_services
    /\ monitors = load_enabled_services
    /\ cards = Registered
    /\ cache = {}
    /\ monitor_cache = <<>>
    /\ fetches = {}
    /\ _is_refreshing = FALSE
    /\ _auto_refresh_interval = 0
    /\ _auto_refresh_task = 0
    /\ loops = <<>>
    /\ runs = <<>>
    /\ _subscribers = NoSubscribers
    /\ _loaded = FALSE
    /\ registry = {}
    /\ scans = 0
    /\ last = [op |-> "init", published |-> <<>>]

NextRefresh ==
    \/ OnRefreshAll
    \/ InitialLoad
    \/ \E value \in Intervals : OnIntervalChange(value)
    \/ Dispose
    \/ \E l \in 1..MaxLoops : LoopTick(l)
    \/ \E f \in fetches, raw_error \in BOOLEAN : FetchReturn(f, raw_error)
    \/ \E f \in fetches : FetchRaise(f)
    \/ \E r \in 1..MaxRuns : RunDone(r)
    \/ \E r \in 1..MaxRuns : RunRaise(r)
    \/ \E id \in Registered : RemoveService(id)

SpecRefresh == InitRefresh /\ [][NextRefresh]_vars

\* C4 (refuted): after remove_service returned true, the result cache of
\* CacheManager has no row of the removed service.
NoCacheRowAfterRemove ==
    (last.op = "remove_service" /\ last.ret)
    => last.service_id \notin DOMAIN monitor_cache

\* the ids of the children of run r that are still fetching
Fetching(r) == {f.monitor.service_id : f \in InFlight(r)}

\* C5: within one refresh-all run a fetch that raises takes no sibling with
\* it: a child is cancelled only with its run, a run ends only when each of
\* its children has returned or raised, and a child that returns has its
\* result in the cache and cache-updated published.
RefreshIsolation ==
    /\ \A r \in DOMAIN runs :
          /\ runs[r].cancelled # {} => runs[r].state = "cancelled"
          /\ runs[r].state = "done"
                => runs[r].returned \cup runs[r].raised = runs[r].ids
          /\ runs[r].state = "gather"
                => Fetching(r) \cup runs[r].returned \cup runs[r].raised = runs[r].ids
    /\ last.op = "fetch_return"
          => /\ last.service_id \in DOMAIN monitor_cache
             /\ load(monitor_cache, last.service_id).ret.run = last.run
             /\ last.published = <<"cache_updated", last.service_id>>

\* a run has ended in which one fetch raised and its sibling returned
RefreshIsolationWitness ==
    /\ last.op = "run_done"
    /\ runs[last.run].raised # {}
    /\ runs[last.run].returned # {}
    /\ runs[last.run].returned \subseteq DOMAIN monitor_cache

\* C6 (refuted): when a run has ended, the cache has a row for each of its
\* instances, and the row of an instance whose fetch raised bears raw_error.
FailedFetchCached ==
    last.op = "run_done"
    => \A id \in runs[last.run].ids :
          /\ id \in DOMAIN monitor_cache
          /\ id \in runs[last.run].raised
                => load(monitor_cache, id).ret = [raw_error |-> TRUE, run |-> last.run]

\* at most one refresh-all run is in progress, and each of its instances has
\* one fetch
OneRun ==
    /\ Cardinality({r \in DOMAIN runs : runs[r].state = "gather"}) <= 1
    /\ \A r \in DOMAIN runs :
          /\ Cardinality(InFlight(r)) = Cardinality(Fetching(r))
          /\ Fetching(r) \cap (runs[r].returned \cup runs[r].raised) = {}
          /\ runs[r].returned \cap runs[r].raised = {}

\* a refresh-all request made while a run is in progress invokes no fetch,
\* starts no run and publishes no refresh-started; a request that starts a
\* run invokes the fetch of each enabled instance
RequestStep ==
    /\ (_is_refreshing /\ last'.op \in {"refresh_all", "tick", "initial_load"})
          => /\ fetches' \subseteq fetches
             /\ Len(runs') = Len(runs)
             /\ last'.published = <<>>
             /\ ~last'.started
    /\ Len(runs') > Len(runs)
          => /\ runs'[Len(runs')].ids = EnabledMonitors
             /\ \/ EnabledMonitors = {}
                \/ {f.monitor.service_id : f \in fetches' \ fetches} = EnabledMonitors

\* C7: a refresh-all request made while a run is in progress is a no-op, at
\* most one run is in progress at a time, and within a run the fetch of each
\* enabled instance is invoked exactly once.
ReentrantRefreshNoOp == []OneRun /\ [][RequestStep]_vars

\* a request arrived while the fetches of a run were in flight, and returned
ReentrantRefreshWitness ==
    /\ last.op = "refresh_all"
    /\ ~last.started
    /\ _is_refreshing
    /\ \E r \in DOMAIN runs : Fetching(r) = runs[r].ids /\ runs[r].ids # {}

\* C8 (refuted): stopping the auto-refresh task cancels no refresh-all run
\* and none of its fetches.
RefreshSurvivesCancel ==
    \A r \in DOMAIN runs : runs[r].cancelled = {} /\ runs[r].state # "cancelled"

\* the auto-refresh tasks that can still call _refresh_all_async
Live == {l \in DOMAIN loops : loops[l] \in {"sleeping", "refreshing"}}

\* at most one auto-refresh task is live, and it is the one the page holds
OneLoop == Live \subseteq {_auto_refresh_task}

\* a task is created only with a positive interval and only after the one
\* before it is cancelled, and a run is started from a tick only by the task
\* the page holds
LoopStep ==
    /\ Len(loops') > Len(loops)
          => /\ _auto_refresh_interval' > 0
             /\ \A l \in DOMAIN loops : loops'[l] \in {"cancelled", "done"}
             /\ _auto_refresh_task' = Len(loops')
    /\ (Len(runs') > Len(runs) /\ runs'[Len(runs')].owner[1] = "loop")
          => runs'[Len(runs')].owner[2] = _auto_refresh_task

\* C9: at any time at most one auto-refresh loop can trigger refresh_all;
\* an interval change cancels the loop before it creates one, creates one
\* only for a positive interval, and no tick of the old loop starts a run.
NoDuplicateLoops == []OneLoop /\ [][LoopStep]_vars

\* a second loop replaced a cancelled first one and its tick started a run
NoDuplicateLoopsWitness ==
    /\ Len(loops) = 2
    /\ loops[1] = "cancelled"
    /\ loops[2] = "refreshing"
    /\ _auto_refresh_task = 2
    /\ \E r \in DOMAIN runs : runs[r].owner = <<"loop", 2>> /\ runs[r].state = "gather"

\* ------------------------------------------------------------------------
\* Credential store: manifest, deletion, partial reads, vault errors
\* ------------------------------------------------------------------------

\* the ':chunks' entry of a key and its ':chunk:idx' entries
SentinelKey(service_id, name) == _make_key(service_id, name) \o <<"chunks">>
ChunkKey(service_id, name, idx) ==
    _make_key(service_id, name) \o <<"chunk", IdxSeg(idx)>>

\* the chunk entries 0..n-1 of a key, joined in index order
RECURSIVE JoinChunks(_, _, _, _)
JoinChunks(service_id, name, idx, n) ==
    IF idx >= n THEN <<>>
    ELSE vault[ChunkKey(service_id, name, idx)] \o JoinChunks(service_id, name, idx + 1, n)

\* the manifest of a key is whole: every chunk entry it counts exists
ManifestWhole(service_id, name) ==
    \A idx \in 0..ToInt(vault[SentinelKey(service_id, name)]) - 1 :
        ChunkKey(service_id, name, idx) \in DOMAIN vault

\* C11 (refuted): after any set_credential call, failed part-way or not, a
\* ':chunks' entry of the key with count n has its chunk entries 0..n-1 and
\* they join to the value of that call.  Stated for the ASCII values.
ChunkManifestInvariant ==
    (last.op = "set" /\ last.value \in AsciiStrings
        /\ SentinelKey(last.service_id, last.name) \in DOMAIN vault)
    => /\ ManifestWhole(last.service_id, last.name)
       /\ JoinChunks(last.service_id, last.name, 0,
                     ToInt(vault[SentinelKey(last.service_id, last.name)])) = last.value

\* after a delete in which no vault call failed, on a key that had a
\* ':chunks' entry, the entry is gone and get returns None
DeleteComplete ==
    (last.op = "delete" /\ last.nofail /\ last.chunks > 0)
    => /\ SentinelKey(last.service_id, last.name) \notin DOMAIN vault
       /\ get_credential(vault, last.service_id, last.name, NoFail) = None

\* a large value set on the key right after such a delete gets the chunk
\* count of its own chunks and is read back (the ASCII values, which
\* chunking keeps intact, as themselves)
SetAfterDelete ==
    (/\ last.op = "delete" /\ last.nofail /\ last.chunks > 0
     /\ last'.op = "set" /\ last'.nofail
     /\ last'.service_id = last.service_id /\ last'.name = last.name
     /\ ByteLen(last'.value) > MAX_CREDENTIAL_SIZE)
    => /\ vault'[SentinelKey(last.service_id, last.name)]
            = ToStr(Len(ChunksOf(Encode(last'.value))))
       /\ last'.value \in AsciiStrings
            => get_credential(vault', last.service_id, last.name, NoFail) = last'.value

\* C12: when no vault call fails, after delete_credential on a key that holds
\* a chunked value get_credential returns None and no ':chunks' entry is
\* left, and a large value set afterwards is read back with its own count.
ChunkDeletionComplete == []DeleteComplete /\ [][SetAfterDelete]_vars

\* a chunked value of three chunks was deleted
ChunkDeletionWitness ==
    /\ last.op = "delete" /\ last.nofail /\ last.ret
    /\ last.chunks = MaxChunks
    /\ \A key \in DOMAIN vault : key[2] # last.service_id

\* C13: while a key has a ':chunks' entry with count n, get_credential
\* returns the join of all n chunk entries or None, whichever vault call
\* fails, and None if one of the n chunk entries is missing.
NoPartialRead ==
    \A id \in VaultIds, name \in VaultNames :
        SentinelKey(id, name) \in DOMAIN vault
        => \A fail \in Fails :
              LET ret == get_credential(vault, id, name, fail)
                  n == ManifestCount(vault, id, name)
              IN IF ManifestWhole(id, name)
                 THEN /\ ret \in {None, JoinChunks(id, name, 0, n)}
                      /\ fail = NoFail => ret # None
                 ELSE ret = None

\* a get on a key whose manifest counts two or more chunks of which the
\* first exists and a later one is missing
NoPartialReadWitness ==
    /\ last.op = "get"
    /\ last.ret = None
    /\ SentinelKey(last.service_id, last.name) \in DOMAIN vault
    /\ ChunkKey(last.service_id, last.name, 0) \in DOMAIN vault
    /\ ~ManifestWhole(last.service_id, last.name)

\* ------------------------------------------------------------------------
\* Credential store, batch operations with failing vault calls
\* ------------------------------------------------------------------------

\* get_credentials over a list of names; fails[i] is the failing call of
\* the get_credential of names[i]
RECURSIVE GetEach(_, _, _, _)
GetEach(v, service_id, credential_names, fails) ==
    IF credential_names = <<>> THEN [ret |-> <<>>, raised |-> FALSE]
    ELSE LET name == Head(credential_names)
             value == get_credential(v, service_id, name, Head(fails))
             rest == GetEach(v, service_id, Tail(credential_names), Tail(fails))
         IN IF value = Raised THEN [ret |-> <<>>, raised |-> TRUE]
            ELSE [ret |-> IF value = None \/ name \in DOMAIN rest.ret THEN rest.ret
                          ELSE With(rest.ret, name, value),
                  raised |-> rest.raised]

\* has_credentials: False at the first name whose get_credential is None
RECURSIVE HasEach(_, _, _, _)
HasEach(v, service_id, credential_names, fails) ==
    IF credential_names = <<>> THEN [ret |-> TRUE, raised |-> FALSE]
    ELSE LET value == get_credential(v, service_id, Head(credential_names), Head(fails))
         IN IF value = Raised THEN [ret |-> FALSE, raised |-> TRUE]
            ELSE IF value = None THEN [ret |-> FALSE, raised |-> FALSE]
            ELSE HasEach(v, service_id, Tail(credential_names), Tail(fails))

\* delete_all_credentials: delete_credential for every listed name, False
\* if one was False
RECURSIVE DeleteEach(_, _, _, _)
DeleteEach(v, service_id, credential_names, fails) ==
    IF credential_names = <<>> THEN [vault |-> v, ret |-> TRUE, raised |-> FALSE]
    ELSE LET r == delete_credential(v, service_id, Head(credential_names), Head(fails))
             rest == DeleteEach(r.vault, service_id, Tail(credential_names), Tail(fails))
         IN IF r.raised THEN r
            ELSE [vault |-> rest.vault, ret |-> r.ret /\ rest.ret, raised |-> rest.raised]

\* the names and name lists of the batch operations
BatchNames == {"api_key", "token"}
NameLists == {<<>>} \cup {<<n>> : n \in BatchNames}
                \cup {names \in BatchNames \X BatchNames : names[1] # names[2]}
FailLists(names) ==
    IF Len(names) = 0 THEN {<<>>}
    ELSE IF Len(names) = 1 THEN {<<f>> : f \in Fails}
    ELSE {<<f, g>> : f \in Fails, g \in Fails}
CredDicts == UNION {[ns -> CredValues] : ns \in SUBSET BatchNames}

BatchSet(id, name, value, fail) ==
    LET r == set_credential(vault, id, name, value, fail)
    IN /\ vault' = r.vault
       /\ last' = [op |-> "set", ret |-> r.ret, raised |-> r.raised, failing |-> (fail # NoFail)]
       /\ UNCHANGED app_vars

BatchGet(id, name, fail) ==
    LET value == get_credential(vault, id, name, fail)
    IN /\ last' = [op |-> "get", ret |-> (value \notin {None, Raised}),
                   raised |-> (value = Raised), failing |-> (fail # NoFail)]
       /\ UNCHANGED <<vault, app_vars>>

BatchDelete(id, name, fail) ==
    LET r == delete_credential(vault, id, name, fail)
    IN /\ vault' = r.vault
       /\ last' = [op |-> "delete", ret |-> r.ret, raised |-> r.raised,
                   failing |-> (fail # NoFail)]
       /\ UNCHANGED app_vars

GetCredentials(id, names, fails) ==
    LET r == GetEach(vault, id, names, fails)
    IN /\ last' = [op |-> "get_credentials", ret |-> (DOMAIN r.ret # {}),
                   raised |-> r.raised, failing |-> (\E i \in DOMAIN fails : fails[i] # NoFail)]
       /\ UNCHANGED <<vault, app_vars>>

HasCredentials(id, names, fails) ==
    LET r == HasEach(vault, id, names, fails)
    IN /\ last' = [op |-> "has_credentials", ret |-> r.ret, raised |-> r.raised,
                   failing |-> (\E i \in DOMAIN fails : fails[i] # NoFail)]
       /\ UNCHANGED <<vault, app_vars>>

SetCredentials(id, credentials, fails) ==
    LET r == SetEach(vault, id, credentials, fails)
    IN /\ vault' = r.vault
       /\ last' = [op |-> "set_credentials", ret |-> r.ret, raised |-> r.raised,
                   failing |-> (\E n \in DOMAIN fails : fails[n] # NoFail)]
       /\ UNCHANGED app_vars

DeleteAllCredentials(id, names, fails) ==
    LET r == DeleteEach(vault, id, names, fails)
    IN /\ vault' = r.vault
       /\ last' = [op |-> "delete_all_credentials", ret |-> r.ret, raised |-> r.raised,
                   failing |-> (\E i \in DOMAIN fails : fails[i] # NoFail)]
       /\ UNCHANGED app_vars

NextBatch ==
    \/ \E id \in VaultIds, name \in BatchNames, value \in CredValues, fail \in Fails :
          BatchSet(id, name, value, fail)
    \/ \E id \in VaultIds, name \in BatchNames, fail \in Fails : BatchGet(id, name, fail)
    \/ \E id \in VaultIds, name \in BatchNames, fail \in Fails : BatchDelete(id, name, fail)
    \/ \E id \in VaultIds, names \in NameLists : \E fails \in FailLists(names) :
          GetCredentials(id, names, fails)
    \/ \E id \in VaultIds, names \in NameLists : \E fails \in FailLists(names) :
          HasCredentials(id, names, fails)
    \/ \E id \in VaultIds, credentials \in CredDicts :
          \E fails \in [DOMAIN credentials -> Fails] : SetCredentials(id, credentials, fails)
    \/ \E id \in VaultIds, names \in NameLists : \E fails \in FailLists(names) :
          DeleteAllCredentials(id, names, fails)

SpecBatch == Init /\ [][NextBatch]_vars

\* C14: no credential-store operation lets a vault error out: whichever
\* vault call of set_credential, get_credential, delete_credential,
\* get_credentials, set_credentials, delete_all_credentials or
\* has_credentials fails, the operation returns its value.
VaultErrorsAbsorbed == last.op # "init" => ~last.raised

\* a batch write returned False after a vault call of it failed
VaultErrorsAbsorbedWitness ==
    /\ last.op = "set_credentials"
    /\ last.failing
    /\ ~last.ret
    /\ ~last.raised

\* C15 (refuted): whenever delete_credential returns True for a key that had
\* a ':chunks' entry with count n, that entry and the chunk entries 0..n-1
\* are gone from the vault, also when vault delete calls failed.
DeleteReportsRemoval ==
    (last.op = "delete" /\ last.ret /\ last.chunks > 0)
    => /\ SentinelKey(last.service_id, last.name) \notin DOMAIN vault
       /\ \A idx \in 0..last.chunks - 1 :
             ChunkKey(last.service_id, last.name, idx) \notin DOMAIN vault

\* ------------------------------------------------------------------------
\* Result cache as a state machine
\* ------------------------------------------------------------------------

\* service ids with a row in the cache
NumRows == 3
CacheIds == {ServiceIdOf("gemini_quota", n) : n \in 1..NumRows}

\* the results a refresh saves: a success, or an error result
CacheResults == {[raw_error |-> e, run |-> 0] : e \in BOOLEAN}

\* the orders in which a cursor can yield the rows of the cache
Orders(ids) ==
    {rows \in [1..Cardinality(ids) -> ids] :
        \A i, j \in 1..Cardinality(ids) : i # j => rows[i] # rows[j]}

CacheSave(service_id, result) ==
    /\ monitor_cache' = save(monitor_cache, service_id, result)
    /\ last' = [op |-> "save", service_id |-> service_id, result |-> result,
                replaced |-> /\ service_id \in DOMAIN monitor_cache
                             /\ monitor_cache[service_id] # model_dump_json(result)]
    /\ UNCHANGED <<plugin_vars, _subscribers, vault, services, cache, clock, _instances, monitors, cards,
                   fetches, refresh_vars>>

\* the cache file is damaged, or written by another program: the
\* result_json of a row is a text that does not validate
CorruptRow(service_id) ==
    /\ monitor_cache' = With(monitor_cache, service_id, CorruptBlob)
    /\ last' = [op |-> "corrupt", service_id |-> service_id]
    /\ UNCHANGED <<plugin_vars, _subscribers, vault, services, cache, clock, _instances, monitors, cards,
                   fetches, refresh_vars>>

CacheLoad(service_id) ==
    LET r == load(monitor_cache, service_id)
    IN /\ monitor_cache' = r.cache
       /\ last' = [op |-> "load", service_id |-> service_id, ret |-> r.ret,
                   corrupt |-> (service_id \in DOMAIN monitor_cache
                                 /\ ~monitor_cache[service_id].json)]
       /\ UNCHANGED <<plugin_vars, _subscribers, vault, services, cache, clock, _instances, monitors, cards,
                      fetches, refresh_vars>>

CacheLoadAll(rows) ==
    /\ last' = [op |-> "load_all", rows |-> rows, ret |-> load_all(monitor_cache, rows)]
    /\ UNCHANGED <<plugin_vars, _subscribers, vault, services, cache, monitor_cache, clock, _instances,
                   monitors, cards, fetches, refresh_vars>>

CacheDelete(service_id) ==
    LET r == delete(monitor_cache, service_id)
    IN /\ monitor_cache' = r.cache
       /\ last' = [op |-> "cache_delete", service_id |-> service_id, ret |-> r.ret]
       /\ UNCHANGED <<plugin_vars, _subscribers, vault, services, cache, clock, _instances, monitors, cards,
                      fetches, refresh_vars>>

NextCache ==
    \/ \E id \in CacheIds, result \in CacheResults : CacheSave(id, result)
    \/ \E id \in CacheIds : CorruptRow(id)
    \/ \E id \in CacheIds : CacheLoad(id)
    \/ \E rows \in Orders(DOMAIN monitor_cache) : CacheLoadAll(rows)
    \/ \E id \in CacheIds : CacheDelete(id)

SpecCache == Init /\ [][NextCache]_vars

\* a load of a row that does not validate returns None and deletes the row,
\* a second load returns None too, and every other row stays as it was
LoadStep ==
    (/\ last'.op = "load"
     /\ last'.service_id \in DOMAIN monitor_cache
     /\ ~monitor_cache[last'.service_id].json)
    => /\ last'.ret = NoResult
       /\ ~has_cache(monitor_cache', last'.service_id)
       /\ load(monitor_cache', last'.service_id)
            = [cache |-> monitor_cache', ret |-> NoResult]
       /\ \A other \in CacheIds \ {last'.service_id} :
             /\ has_cache(monitor_cache', other) = has_cache(monitor_cache, other)
             /\ has_cache(monitor_cache, other)
                   => monitor_cache'[other] = monitor_cache[other]

\* C16: when the blob of a row fails to deserialize, load(id) returns None
\* and deletes the row, a second load(id) returns None again, and the rows
\* of all other ids are unchanged.
CacheSelfHealing == [][LoadStep]_vars

\* a corrupt row was loaded and removed while a valid and another corrupt
\* row stayed
CacheSelfHealingWitness ==
    /\ last.op = "load"
    /\ last.corrupt
    /\ last.ret = NoResult
    /\ ~has_cache(monitor_cache, last.service_id)
    /\ \E a, b \in DOMAIN monitor_cache : monitor_cache[a].json /\ ~monitor_cache[b].json

\* C17 (refuted): after load_all no row that fails to deserialize is left
\* in the cache.
LoadAllSelfHeals ==
    last.op = "load_all"
    => \A id \in CacheIds : has_cache(monitor_cache, id) => monitor_cache[id].json

\* C18: load_all returns exactly the rows that deserialize, whatever the
\* number of corrupt rows and their place in the scan.
LoadAllSkipsCorrupt ==
    last.op = "load_all"
    => last.ret = [id \in {i \in DOMAIN monitor_cache : monitor_cache[i].json}
                     |-> monitor_cache[id].result]

\* load_all met a corrupt row first and returned the valid rows after it
LoadAllSkipsCorruptWitness ==
    /\ last.op = "load_all"
    /\ Len(last.rows) = NumRows
    /\ ~monitor_cache[last.rows[1]].json
    /\ Cardinality(DOMAIN last.ret) = NumRows - 1

\* C19: the result of a refreshed service is written to the cache before
\* cache-updated is published for it: a handler of cache-updated(service_id)
\* that calls CacheManager.load(service_id) gets the result of that refresh.
WriteBeforePublish ==
    last.op = "fetch_return"
    => /\ last.published = <<"cache_updated", last.service_id>>
       /\ last.handler_loads = last.result

\* the second run replaced the row of a service and its handler read the
\* new result
WriteBeforePublishWitness ==
    /\ last.op = "fetch_return"
    /\ last.run = MaxRuns
    /\ last.handler_loads.run = MaxRuns
    /\ runs[1].state = "done"
    /\ last.service_id \in runs[1].returned

\* C20 (refuted): refresh_all returns a map with exactly one entry per
\* enabled instance, the entry of an instance whose fetch raised bearing
\* raw_error, and no entry for a disabled instance.
RefreshAllReturnsAll ==
    last.op = "refresh_all"
    => /\ DOMAIN last.ret = last.enabled
       /\ \A id \in last.raised : last.ret[id].raw_error

\* C21: add_service with a plugin type that is not in PLUGIN_REGISTRY
\* returns None and changes neither the services, the vault, the live
\* instances nor the cache.
UnknownTypeAddsNothing ==
    [][(/\ last'.op = "add_service"
        /\ last'.plugin_type \notin DOMAIN PLUGIN_REGISTRY)
       => /\ ~last'.ret
          /\ services' = services
          /\ vault' = vault
          /\ _instances' = _instances
          /\ cache' = cache
          /\ clock' = clock]_vars

\* an add of an unregistered type was rejected while a service is registered
\* and has stored credentials
UnknownTypeAddsNothingWitness ==
    /\ last.op = "add_service"
    /\ last.plugin_type \notin DOMAIN PLUGIN_REGISTRY
    /\ ~last.ret
    /\ services # <<>>
    /\ vault # <<>>

\* C22: add_service does not roll back: when a credential write of the call
\* failed, the record the call created exists afterwards and every field
\* whose write succeeded reads back as written.
AddKeepsPartialWrites ==
    [][(/\ last'.op = "add_service"
        /\ last'.plugin_type \in DOMAIN PLUGIN_REGISTRY
        /\ ~last'.stored)
       => /\ last'.service_id \in DOMAIN services'
          /\ \A name \in DOMAIN last'.credentials :
                set_credential(vault, last'.service_id, name,
                               last'.credentials[name], last'.fails[name]).ret
                => get_credential(vault', last'.service_id, name, NoFail)
                      = last'.credentials[name]]_vars

\* an add in which the write of one field failed and the write of another
\* succeeded
AddKeepsPartialWritesWitness ==
    /\ last.op = "add_service"
    /\ last.plugin_type \in DOMAIN PLUGIN_REGISTRY
    /\ ~last.stored
    /\ last.service_id \in DOMAIN services
    /\ \E name \in DOMAIN last.credentials :
          /\ last.fails[name] = NoFail
          /\ get_credential(vault, last.service_id, name, NoFail) = last.credentials[name]
    /\ \E name \in DOMAIN last.credentials : last.fails[name] # NoFail

\* ------------------------------------------------------------------------
\* Loading the registry: records of registered and unregistered types
\* ------------------------------------------------------------------------

\* records in the registry when it is loaded
NumRecords == 3

LoadIds == {ServiceIdOf(t, n) : t \in PluginTypes, n \in (1..NumRecords)}

\* what the vault holds for a record: nothing, a short required field, or
\* a chunked required field and a field the plugin does not require
StoredMaps ==
    {<<>>, [api_key |-> Pad(1)],
     [api_key |-> Pad(MAX_CREDENTIAL_SIZE + 1), region |-> Pad(1)]}

\* the vault after the credentials of the records of the slots were stored
RECURSIVE StoredVault(_, _, _)
StoredVault(slots, types, stored) ==
    IF slots = {} THEN <<>>
    ELSE LET n == CHOOSE m \in slots : TRUE
         IN set_credentials(StoredVault(slots \ {n}, types, stored),
                            ServiceIdOf(types[n], n), stored[n])

\* a registry left by earlier runs: each record is of a type that is or is
\* no longer registered, enabled or not, with or without stored credentials
InitLoad ==
    /\ \E slots \in SUBSET (1..NumRecords) :
          \E types \in [slots -> PluginTypes], enabled \in [slots -> BOOLEAN],
             stored \in [slots -> StoredMaps] :
             /\ services = [id \in {ServiceIdOf(types[n], n) : n \in slots} |->
                              LET n == CHOOSE m \in slots : ServiceIdOf(types[m], m) = id
                              IN [plugin_type |-> types[n], alias |-> "a",
                                  enabled |-> enabled[n], created_at |-> n]]
             /\ vault = StoredVault(slots, types, stored)
    /\ last = [op |-> "init"]
    /\ cache = {}
    /\ monitor_cache = <<>>
    /\ clock = NumRecords
    /\ _instances = <<>>
    /\ monitors = <<>>
    /\ cards = {}
    /\ fetches = {}
    /\ _is_refreshing = FALSE
    /\ _auto_refresh_interval = 0
    /\ _auto_refresh_task = 0
    /\ loops = <<>>
    /\ runs = <<>>
    /\ _subscribers = NoSubscribers
    /\ _loaded = FALSE
    /\ registry = {}
    /\ scans = 0

NextLoad ==
    \/ LoadEnabledServices
    \/ \E id \in LoadIds, e \in BOOLEAN : ToggleService(id, e)

SpecLoad == InitLoad /\ [][NextLoad]_vars

\* C23: load_enabled_services returns exactly one instance for every enabled
\* record whose type is registered, holding the stored values of the
\* required fields of its class and nothing else; it returns none for a
\* disabled record, and a record of an unregistered type is skipped without
\* cutting the list short.
LoadReturnsEnabledRegistered ==
    last.op = "load_enabled_services"
    => /\ \A id \in DOMAIN services :
             (services[id].enabled /\ services[id].plugin_type \in DOMAIN PLUGIN_REGISTRY)
             => Cardinality({i \in DOMAIN last.ret : last.ret[i].service_id = id}) = 1
       /\ \A i \in DOMAIN last.ret :
             LET id == last.ret[i].service_id
                 held == last.ret[i].credentials
             IN /\ id \in DOMAIN services
                /\ services[id].enabled
                /\ services[id].plugin_type \in DOMAIN PLUGIN_REGISTRY
                /\ last.ret[i].plugin_type = services[id].plugin_type
                /\ DOMAIN held \subseteq PLUGIN_REGISTRY[services[id].plugin_type]
                /\ \A name \in PLUGIN_REGISTRY[services[id].plugin_type] :
                      IF get_credential(vault, id, name, NoFail) = None
                      THEN name \notin DOMAIN held
                      ELSE /\ name \in DOMAIN held
                           /\ held[name] = get_credential(vault, id, name, NoFail)

\* a load of three enabled records of which the second is of an unregistered
\* type: the first and the third are returned, with their stored credentials
LoadReturnsEnabledRegisteredWitness ==
    /\ last.op = "load_enabled_services"
    /\ Len(last.ret) = 2
    /\ Cardinality({id \in DOMAIN services : services[id].enabled}) = 3
    /\ services[get_enabled_services(services)[2]].plugin_type \notin DOMAIN PLUGIN_REGISTRY
    /\ \A i \in DOMAIN last.ret : last.ret[i].credentials # <<>>
    /\ \E id \in DOMAIN services : "region" \in DOMAIN get_credentials(vault, id, {"region"})

\* ------------------------------------------------------------------------
\* Event bus as a state machine
\* ------------------------------------------------------------------------

SpecBus == Init /\ [][NextBus]_vars

\* C24: publish calls every callback subscribed to the type of the event
\* exactly once, in the order of the subscriptions, also the callbacks
\* behind one that raised, and publish itself does not raise.
PublishReachesAll ==
    last.op = "publish"
    => /\ ~last.raised
       /\ last.delivered = _subscribers[last.type]
       /\ \A i, j \in DOMAIN last.delivered :
             last.delivered[i] = last.delivered[j] => i = j
       /\ \A i \in DOMAIN last.delivered :
             last.outcomes[last.delivered[i]] = "raises"
             => Has(last.caught, last.delivered[i])

\* a publish to three callbacks of which the first raised, while the other
\* event type has other subscribers
PublishReachesAllWitness ==
    /\ last.op = "publish"
    /\ Len(_subscribers[last.type]) = NumCallbacks
    /\ last.outcomes[_subscribers[last.type][1]] = "raises"
    /\ Len(last.delivered) = NumCallbacks
    /\ \E t \in EventTypes : Len(_subscribers[t]) = 1

\* C25: refresh_single_service of an id without a live instance returns
\* false and awaits no fetch; when the fetch of a live instance raises it
\* returns a boolean (false) and does not raise.
RefreshOneNeverRaises ==
    last.op = "refresh_single_service"
    => /\ last.ret \in BOOLEAN
       /\ ~last.raised
       /\ last.service_id \notin DOMAIN _instances => (~last.ret /\ ~last.fetched)
       /\ last.service_id \in DOMAIN _instances => last.fetched
       /\ (last.fetched /\ last.outcome = "raises") => ~last.ret

\* the fetch of a live instance raised
RefreshOneNeverRaisesWitness ==
    /\ last.op = "refresh_single_service"
    /\ last.service_id \in DOMAIN _instances
    /\ last.fetched
    /\ last.outcome = "raises"
    /\ ~last.ret

\* C26 (refuted): after refresh_single_service returned true the row of the
\* service in the result cache holds the result of that fetch.
RefreshOneCaches ==
    (last.op = "refresh_single_service" /\ last.ret)
    => /\ last.service_id \in DOMAIN monitor_cache
       /\ monitor_cache[last.service_id] = model_dump_json(last.result)

\* ------------------------------------------------------------------------
\* MonitorResult.overall_status over all results
\* ------------------------------------------------------------------------

SpecStatus == Init /\ [][NextStatus]_vars

\* C27: overall_status is error if raw_error is set; else the most severe
\* status among the metrics, normal < warning < error; normal without
\* metrics.
OverallStatusIsMaxSeverity ==
    last.op = "overall_status"
    => LET among == {last.result.metrics[i] : i \in DOMAIN last.result.metrics}
       IN last.ret = IF last.result.raw_error # None THEN "error"
                     ELSE IF "error" \in among THEN "error"
                     ELSE IF "warning" \in among THEN "warning"
                     ELSE "normal"

\* a result without raw_error whose first metric is the most severe one
OverallStatusIsMaxSeverityWitness ==
    /\ last.op = "overall_status"
    /\ last.result.raw_error = None
    /\ last.result.metrics = <<"warning", "normal">>
    /\ last.ret = "warning"

\* a delete, without a failing vault call, of a key that has neither a plain
\* entry nor a ':chunks' entry returns True and leaves the vault as it was
DeleteAbsentStep ==
    (last'.op = "delete" /\ last'.nofail /\ last'.absent)
    => (last'.ret /\ vault' = vault)

\* a second delete of the same key right after a first one returns True and
\* changes nothing
DeleteAgainStep ==
    (/\ last.op = "delete" /\ last.nofail
     /\ last'.op = "delete" /\ last'.nofail
     /\ last'.service_id = last.service_id /\ last'.name = last.name)
    => (last'.ret /\ last'.absent /\ vault' = vault)

\* C28: delete_credential is idempotent: on an absent key it returns true
\* and leaves the vault unchanged, so deleting twice is the same as
\* deleting once.
DeleteIdempotent == [][DeleteAbsentStep]_vars /\ [][DeleteAgainStep]_vars

\* a delete of an absent key returned true while the vault still holds
\* entries
DeleteIdempotentWitness ==
    /\ last.op = "delete" /\ last.nofail /\ last.absent /\ last.ret
    /\ vault # <<>>

\* C29: remove_service returns true exactly when a record of the id existed;
\* after true neither a record nor a live instance of the id is left; for an
\* id without a record it returns false and leaves the services, the vault
\* and the live instances as they were.
RemoveReportsRecord ==
    [][last'.op = "remove_service"
       => /\ last'.ret = (last'.service_id \in DOMAIN services)
          /\ last'.ret => /\ last'.service_id \notin DOMAIN services'
                          /\ last'.service_id \notin DOMAIN _instances'
          /\ ~last'.ret => /\ services' = services
                           /\ vault' = vault
                           /\ _instances' = _instances]_vars

\* the record of a service that was added was removed
RemoveReportsRecordWitness ==
    /\ last.op = "remove_service"
    /\ last.ret
    /\ clock = MaxServices
    /\ last.service_id \notin DOMAIN services
    /\ last.service_id \notin DOMAIN _instances

\* C30: the result cache is last-write-wins with whole rows: in every order
\* of CacheManager.save calls a save(service_id, result) leaves exactly one
\* row of the service, which holds the whole result of that save whatever
\* the row held before, and leaves every other row as it was.
SaveReplacesOwnRow ==
    [][last'.op = "save"
       => /\ DOMAIN monitor_cache' = DOMAIN monitor_cache \cup {last'.service_id}
          /\ monitor_cache'[last'.service_id] = model_dump_json(last'.result)
          /\ load(monitor_cache', last'.service_id).ret = last'.result
          /\ \A id \in DOMAIN monitor_cache \ {last'.service_id} :
                monitor_cache'[id] = monitor_cache[id]]_vars

\* a save replaced the different row of its service while every other
\* service has a row
SaveReplacesOwnRowWitness ==
    /\ last.op = "save"
    /\ last.replaced
    /\ DOMAIN monitor_cache = CacheIds
    /\ monitor_cache[last.service_id] = model_dump_json(last.result)
    /\ \E id \in CacheIds : monitor_cache[id] # monitor_cache[last.service_id]

\* ------------------------------------------------------------------------
\* Plugin discovery as a state machine
\* ------------------------------------------------------------------------

SpecDiscover == Init /\ [][NextDiscover]_vars

\* once a scan has reached its end no call scans again, and the registry
\* changes only in a scan or in register_plugin
DiscoverStep ==
    /\ _loaded => (_loaded' /\ scans' = scans /\ ~(last'.op # "register_plugin" /\ last'.scanned))
    /\ registry' # registry
       => (last'.op = "register_plugin" \/ (~_loaded /\ last'.scanned))

\* the scan ran to its end at most once, discover_plugins returns the
\* registered types and get_plugin_class returns None for a type that is not
\* registered
DiscoverOnce ==
    /\ scans <= 1
    /\ _loaded <=> scans = 1
    /\ (last.op = "discover_plugins" /\ ~last.raised) => (_loaded /\ last.ret = registry)
    /\ (last.op = "get_plugin_class" /\ ~last.raised)
       => (last.ret = NoClass <=> last.plugin_type \notin registry)

RefreshReturnsToIdle ==
    _is_refreshing => \E r \in DOMAIN runs : runs[r].state = "gather"

\* when the refresh-all of a tick raised, the auto-refresh task sleeps again
TickRaiseStep ==
    (last'.op = "run_raise" /\ last'.owner[1] = "loop")
    => /\ loops[last'.owner[2]] = "refreshing"
       /\ loops'[last'.owner[2]] = "sleeping"

\* a sleeping auto-refresh task can tick while the interval is positive
\* (within the bound on the runs), and its tick calls _refresh_all_async
LoopSleepsOn ==
    /\ \A l \in DOMAIN loops :
          (/\ loops[l] = "sleeping"
           /\ _auto_refresh_interval > 0
           /\ (_is_refreshing \/ Len(runs) < MaxRuns))
          => ENABLED LoopTick(l)
    /\ (last.op = "tick" /\ _auto_refresh_interval > 0)
          => (last.started \/ _is_refreshing)

\* C38: the auto-refresh loop survives a failing tick: when the refresh-all
\* of a tick raises an exception that is not a cancellation the task does
\* not end; unless it is cancelled or the interval set to 0, it sleeps
\* again and calls refresh-all at its next tick.
LoopSurvivesRaise == []LoopSleepsOn /\ [][TickRaiseStep]_vars

\* the task whose tick raised has ticked again and started a run
LoopSurvivesRaiseWitness ==
    /\ last.op = "tick"
    /\ last.started
    /\ Len(runs) = MaxRuns
    /\ runs[1].state = "raised"
    /\ runs[1].owner[1] = "loop"
    /\ runs[MaxRuns].owner = runs[1].owner
    /\ runs[MaxRuns].state = "gather"

\* ------------------------------------------------------------------------
\* The dashboard while the settings page is shown
\* ------------------------------------------------------------------------

\* the interval the user has chosen on the dashboard
ChosenInterval == 60

\* the API key SettingsPage._save_edit_service stores
EditedKey == Pad(2)

\* the arguments _save_edit_service passes: the alias of the dialog with or
\* without new credentials
EditedCredentials == {<<>>, [api_key |-> EditedKey]}

\* the application of InitRefresh after the user has chosen an interval on
\* the dashboard (_on_interval_change) and opened the settings page
\* (_on_nav_change, index 1): the auto-refresh task sleeps, and dispose is
\* not called
InitPages ==
    /\ services = [id \in Registered |->
                     [plugin_type |-> "gemini_quota", alias |-> "a", enabled |-> TRUE,
                      created_at |-> CHOOSE n \in 1..NumMonitors :
                                        ServiceIdOf("gemini_quota", n) = id]]
    /\ vault = [key \in {<<SERVICE_NAME, id, "api_key">> : id \in Registered} |-> Pad(1)]
    /\ clock = NumMonitors
    /\ _instances = load_enabled_services
    /\ monitors = load_enabled_services
    /\ cards = Registered
    /\ cache = {}
    /\ monitor_cache = <<>>
    /\ fetches = {}
    /\ _is_refreshing = FALSE
    /\ _auto_refresh_interval = ChosenInterval
    /\ _auto_refresh_task = 1
    /\ loops = <<"sleeping">>
    /\ runs = <<>>
    /\ _subscribers = NoSubscribers
    /\ _loaded = FALSE
    /\ registry = {}
    /\ scans = 0
    /\ last = [op |-> "init", published |-> <<>>]

\* CloudMonitorApp._on_nav_change, index 0: DashboardPage.refresh().
\* _build_grid reloads self.monitors from load_enabled_services, whose
\* create_instance calls replace the manager's instances, and gives every
\* monitor a card.  Every record of this specification has its card, so
\* new_service_ids is empty and _refresh_new_services is not started.
NavDashboard ==
    LET loaded == load_enabled_services
    IN /\ DOMAIN loaded \subseteq cards
       /\ monitors' = loaded
       /\ _instances' = [id \in DOMAIN _instances \cup DOMAIN loaded |->
                           IF id \in DOMAIN loaded THEN loaded[id] ELSE _instances[id]]
       /\ cards' = cards \cup DOMAIN loaded
       /\ last' = [op |-> "nav_dashboard", published |-> <<>>]
       /\ UNCHANGED <<plugin_vars, _subscribers, vault, services, cache, monitor_cache,
                      clock, fetches, refresh_vars>>

\* the row of the settings page the user works on
Selected == ServiceIdOf("gemini_quota", 1)

NextPages ==
    \/ \E l \in 1..MaxLoops : LoopTick(l)
    \/ \E f \in fetches, raw_error \in BOOLEAN : FetchReturn(f, raw_error)
    \/ \E f \in fetches : FetchRaise(f)
    \/ \E r \in 1..MaxRuns : RunDone(r)
    \/ \E a \in {"", "b"}, c \in EditedCredentials :
          UpdateServiceCredentials(Selected, a, c)
    \/ \E e \in BOOLEAN : ToggleService(Selected, e)
    \/ RemoveService(Selected)
    \/ NavDashboard

SpecPages == InitPages /\ [][NextPages]_vars

\* C33 (refuted): once update_service_credentials has stored a new API key
\* for a service, every fetch an auto-refresh tick starts for it runs on an
\* instance that holds the new key.
FetchUsesEditedKey ==
    (last.op = "tick" /\ last.started)
    => \A f \in InFlight(Len(runs)) :
          (/\ f.monitor.service_id \in DOMAIN services
           /\ get_credentials(vault, f.monitor.service_id, {"api_key"})
                = [api_key |-> EditedKey])
          => f.monitor.credentials = [api_key |-> EditedKey]

\* C34 (refuted): once a service has been disabled through
\* ConfigManager.update_service, no refresh-all run that starts afterwards
\* fetches it: every fetch an auto-refresh tick starts is for a service
\* whose record is enabled.
DisabledNeverFetched ==
    (last.op = "tick" /\ last.started)
    => \A f \in InFlight(Len(runs)) :
          f.monitor.service_id \in DOMAIN services
          => services[f.monitor.service_id].enabled

\* C35 (refuted): no cache row is created for a removed service: a fetch
\* that returns writes its row only for a service that has a record, no tick
\* starts a fetch for a service without a record, and whenever no fetch is
\* in flight every row of the result cache belongs to a record.
NoRowForRemoved ==
    /\ last.op = "fetch_return" => last.service_id \in DOMAIN services
    /\ (last.op = "tick" /\ last.started)
       => \A f \in InFlight(Len(runs)) : f.monitor.service_id \in DOMAIN services
    /\ fetches = {} => DOMAIN monitor_cache \subseteq DOMAIN services

\* update_service_credentials called with an alias and no credentials: for a
\* service with a record it returns an instance that bears the alias and the
\* credentials stored before the call (those of the old instance, if there
\* was one), the record gets the alias and the vault is left as it was; for
\* a service without a record it fails and changes nothing
AliasOnlyStep ==
    (/\ last'.op = "update_service_credentials"
     /\ last'.alias # ""
     /\ DOMAIN last'.credentials = {})
    => IF last'.service_id \in DOMAIN services
       THEN /\ last'.ret
            /\ vault' = vault
            /\ services' = [services EXCEPT ![last'.service_id].alias = last'.alias]
            /\ last'.instance.alias = last'.alias
            /\ last'.instance = _instances'[last'.service_id]
            /\ last'.instance.credentials
                 = get_credentials(vault, last'.service_id,
                       get_plugin_class(services[last'.service_id].plugin_type)
                           .required_credentials)
            /\ last'.service_id \in DOMAIN _instances
               => last'.instance.credentials = _instances[last'.service_id].credentials
       ELSE /\ ~last'.ret
            /\ UNCHANGED <<vault, app_vars>>

\* C39: an alias-only edit leaves the secrets untouched: the alias changes,
\* every vault entry stays, the rebuilt instance has the new alias and the
\* credentials it had before; for an id without a record the call fails and
\* changes nothing.
AliasOnlyEditKeepsSecrets == [][AliasOnlyStep]_vars

\* an alias-only edit returned an instance that holds a stored credential
AliasOnlyEditWitness ==
    /\ last.op = "update_service_credentials"
    /\ last.ret
    /\ last.alias = "b"
    /\ DOMAIN last.credentials = {}
    /\ DOMAIN last.instance.credentials # {}
    /\ \E key \in DOMAIN vault : key[2] = last.service_id

\* ------------------------------------------------------------------------
\* The vault under calls in which the keyring never fails
\* ------------------------------------------------------------------------

NextStored ==
    \/ \E id \in VaultIds, name \in VaultNames, value \in Strings :
          SetCredential(id, name, value, NoFail)
    \/ \E id \in VaultIds, name \in VaultNames :
          GetCredential(id, name, NoFail)
    \/ \E id \in VaultIds, name \in VaultNames :
          DeleteCredential(id, name, NoFail)

SpecStored == Init /\ [][NextStored]_vars

\* C37 (refuted): after any sequence of successful set_credential and
\* delete_credential calls every ':chunk:i' entry of a key is covered by a
\* ':chunks' entry of the key with a count above i, and after a delete that
\* returned true no vault entry of the key is left.
NoOrphanedChunks ==
    /\ \A id \in VaultIds, name \in VaultNames, idx \in 0..MaxChunks - 1 :
          ChunkKey(id, name, idx) \in DOMAIN vault
          => /\ SentinelKey(id, name) \in DOMAIN vault
             /\ ToInt(vault[SentinelKey(id, name)]) > idx
    /\ (last.op = "delete" /\ last.ret)
       => \A key \in DOMAIN vault : ~(key[2] = last.service_id /\ key[3] = last.name)

\* ------------------------------------------------------------------------
\* Event bus: callbacks that subscribe and unsubscribe while they are called
\* ------------------------------------------------------------------------

\* what a callback does to the bus when it is called: nothing, or one
\* subscribe or unsubscribe of a callback for the type of the event
NoEffect == [call |-> "none", callback |-> 0]
Effects ==
    {NoEffect} \cup [call : {"subscribe", "unsubscribe"}, callback : Callbacks]

\* the list of the type after a callback with the effect has been called
Applied(callbacks, effect) ==
    IF effect.call = "subscribe"
    THEN IF Has(callbacks, effect.callback) THEN callbacks
         ELSE Append(callbacks, effect.callback)
    ELSE IF effect.call = "unsubscribe" THEN Remove(callbacks, effect.callback)
    ELSE callbacks

\* the loop of EventBus.publish over the list object of the type, which
\* subscribe and unsubscribe change in place: the list iterator yields the
\* item at its index while the index is below the length the list has then
RECURSIVE DeliverLive(_, _, _)
DeliverLive(callbacks, i, effects) ==
    IF i > Len(callbacks) THEN [delivered |-> <<>>, callbacks |-> callbacks]
    ELSE LET rest == DeliverLive(Applied(callbacks, effects[callbacks[i]]), i + 1, effects)
         IN [delivered |-> <<callbacks[i]>> \o rest.delivered,
             callbacks |-> rest.callbacks]

\* EventBus.publish of an event of the type to callbacks of which callback
\* c has the effect effects[c] on the bus each time it is called
PublishLive(event_type, effects) ==
    LET done == DeliverLive(_subscribers[event_type], 1, effects)
    IN /\ _subscribers' = [_subscribers EXCEPT ![event_type] = done.callbacks]
       /\ last' = [op |-> "publish_live", type |-> event_type, effects |-> effects,
                   before |-> _subscribers[event_type], delivered |-> done.delivered]
       /\ UNCHANGED <<plugin_vars, vault, services, cache, monitor_cache, clock, _instances,
                      monitors, cards, fetches, refresh_vars>>

\* the callbacks of a publish of which at most one touches the bus
OneMutator ==
    {[c \in Callbacks |-> IF c = mutator THEN effect ELSE NoEffect] :
        mutator \in Callbacks, effect \in Effects}

NextLive ==
    \/ \E t \in EventTypes, c \in Callbacks : Subscribe(t, c)
    \/ \E t \in EventTypes, c \in Callbacks : Unsubscribe(t, c)
    \/ \E t \in EventTypes, effects \in OneMutator : PublishLive(t, effects)

SpecLive == Init /\ [][NextLive]_vars

\* the number of times a callback is in a list
RECURSIVE Times(_, _)
Times(callbacks, callback) ==
    IF callbacks = <<>> THEN 0
    ELSE (IF Head(callbacks) = callback THEN 1 ELSE 0) + Times(Tail(callbacks), callback)

\* C36 (refuted): when callbacks subscribe or unsubscribe callbacks of the
\* event's type during publish, every callback that was subscribed when
\* publish started and is subscribed when it ends has been called exactly
\* once.
MutationDuringDeliverySafe ==
    last.op = "publish_live"
    => \A c \in Callbacks :
          (Has(last.before, c) /\ Has(_subscribers[last.type], c))
          => Times(last.delivered, c) = 1

====
